---------------------------- MODULE Spec2Model ----------------------------
(***************************************************************************)
(* CityPulse (city-health-doctor): the Diagnostic Engine, the per-source   *)
(* normalizers and the query pipeline of App.handleLocationSelect.         *)
(*                                                                         *)
(* JavaScript numbers are IEEE-754 binary64.  TLC has 32-bit integers and  *)
(* no floating point, so the first part of the module is an exact model    *)
(* of binary64 arithmetic (round-to-nearest-even) over arbitrary-size      *)
(* naturals; every score, weight and threshold of the program is computed  *)
(* through it, the way the code computes it.                               *)
(***************************************************************************)
EXTENDS Integers, Sequences, FiniteSets, TLC

VARIABLES
  \* the state of App (useState)
  selectedLocation,   \* LocationData or Null
  vitals,             \* the displayed CityVitals or Null
  isLoading,
  error,              \* the error banner's message or Null
  useMockData,
  \* the call of handleLocationSelect in flight
  pc,                 \* "idle", "awaitFetches", "awaitProcessCityVitals"
                      \* or "awaitMockDelay"
  airQualityData,     \* the three promises given to Promise.allSettled
  earthquakeData,
  weatherData,
  processedVitals,    \* what processCityVitals has made, awaited, or Null
  now,                \* Date.now(), in days
  \* a caller of DiagnosticEngine.generateDiagnosis, or of another function
  \* of the program that has no state of its own
  subject,            \* the CityVitals it passes, or the function and argument
  result,             \* what its latest call has returned, or Null
  \* the services; each variable maps the name of a service to its part
  cache,              \* its cache: a function from cache keys to entries
  lastError,          \* its lastError: Null or [message |-> string]
  call,               \* the promise of its latest fetchData call
  requests,           \* the requests that call has issued (axios.get)
  overtaken,          \* the promises of its earlier calls that wait for
                      \* axios.get: fetchData was called again meanwhile
  clock,              \* Date.now() as the services read it, in minutes
  API_KEY,            \* process.env.REACT_APP_OPENWEATHER_API_KEY || ''
  \* the CacheManager
  cacheManager        \* its cache, config and stats, or Null

vars == << selectedLocation, vitals, isLoading, error, useMockData, pc,
           airQualityData, earthquakeData, weatherData, processedVitals, now,
           subject, result,
           cache, lastError, call, requests, overtaken, clock, API_KEY,
           cacheManager >>

serviceVars ==
  << cache, lastError, call, requests, overtaken, clock, API_KEY,
     cacheManager >>

appVars == << selectedLocation, vitals, isLoading, error, useMockData, pc,
              airQualityData, earthquakeData, weatherData, processedVitals >>

\* JavaScript null, comparable with every record of the model
Null == [null |-> TRUE]

\* the services left out of a specification: what settles a fetch is then
\* the choice of the specification
ServicesAbstracted ==
  /\ cache = Null
  /\ lastError = Null
  /\ call = Null
  /\ requests = Null
  /\ overtaken = Null
  /\ clock = 0
  /\ API_KEY = Null
  /\ cacheManager = Null

(***************************************************************************)
(* Arbitrary-size naturals: little-endian sequences of limbs in base 2^15, *)
(* without high zero limbs (0 is the empty sequence).  A limb has half the *)
(* bits of a positive TLC integer (31), so that the product of two limbs   *)
(* plus a carry is still a TLC integer.                                    *)
(***************************************************************************)
LimbBits == 31 \div 2

Base == 2^LimbBits

RECURSIVE BNorm(_)
BNorm(a) ==
  IF Len(a) = 0 THEN a
  ELSE IF a[Len(a)] = 0 THEN BNorm(SubSeq(a, 1, Len(a) - 1)) ELSE a

BFromNat(n) ==
  IF n = 0 THEN <<>>
  ELSE IF n < Base THEN <<n>>
  ELSE IF n < Base * Base THEN <<n % Base, n \div Base>>
  ELSE <<n % Base, (n \div Base) % Base, n \div (Base * Base)>>

RECURSIVE BToNatFrom(_, _)
BToNatFrom(a, i) ==
  IF i > Len(a) THEN 0 ELSE a[i] + Base * BToNatFrom(a, i + 1)

BToNat(a) == BToNatFrom(a, 1)

RECURSIVE BAddC(_, _, _, _)
BAddC(a, b, i, c) ==
  IF i > Len(a) /\ i > Len(b) THEN (IF c = 0 THEN <<>> ELSE <<c>>)
  ELSE LET x == IF i > Len(a) THEN 0 ELSE a[i]
           y == IF i > Len(b) THEN 0 ELSE b[i]
           s == x + y + c
       IN  <<s % Base>> \o BAddC(a, b, i + 1, s \div Base)

BAdd(a, b) == BAddC(a, b, 1, 0)

RECURSIVE BSubC(_, _, _, _)
BSubC(a, b, i, c) ==
  IF i > Len(a) THEN <<>>
  ELSE LET y == IF i > Len(b) THEN 0 ELSE b[i]
           d == a[i] - y - c
       IN  IF d < 0 THEN <<d + Base>> \o BSubC(a, b, i + 1, 1)
           ELSE <<d>> \o BSubC(a, b, i + 1, 0)

\* a - b for a >= b
BSub(a, b) == BNorm(BSubC(a, b, 1, 0))

RECURSIVE BCmpFrom(_, _, _)
BCmpFrom(a, b, i) ==
  IF i = 0 THEN 0
  ELSE IF a[i] < b[i] THEN -1
  ELSE IF a[i] > b[i] THEN 1
  ELSE BCmpFrom(a, b, i - 1)

\* -1, 0, 1 as a < b, a = b, a > b
BCmp(a, b) ==
  IF Len(a) < Len(b) THEN -1
  ELSE IF Len(a) > Len(b) THEN 1
  ELSE BCmpFrom(a, b, Len(a))

RECURSIVE BMulLimbC(_, _, _, _)
BMulLimbC(a, d, i, c) ==
  IF i > Len(a) THEN (IF c = 0 THEN <<>> ELSE <<c>>)
  ELSE LET p == a[i] * d + c
       IN  <<p % Base>> \o BMulLimbC(a, d, i + 1, p \div Base)

\* a * d for one limb d
BMulLimb(a, d) == IF d = 0 THEN <<>> ELSE BMulLimbC(a, d, 1, 0)

RECURSIVE BMulFrom(_, _, _)
BMulFrom(a, b, j) ==
  IF j > Len(b) THEN <<>>
  ELSE BAdd(BMulLimb(a, b[j]), <<0>> \o BMulFrom(a, b, j + 1))

BMul(a, b) == BNorm(BMulFrom(a, b, 1))

Zeros(n) == [i \in 1..n |-> 0]

\* a * 2^n
BShl(a, n) ==
  IF Len(a) = 0 THEN a
  ELSE Zeros(n \div LimbBits) \o BMulLimb(a, 2^(n % LimbBits))

RECURSIVE BDivLimbFrom(_, _, _, _)
BDivLimbFrom(a, d, i, r) ==
  IF i = 0 THEN <<>>
  ELSE LET x == r * Base + a[i]
       IN  BDivLimbFrom(a, d, i - 1, x % d) \o <<x \div d>>

\* floor(a / d) for one limb d > 0
BDivLimb(a, d) == BNorm(BDivLimbFrom(a, d, Len(a), 0))

\* floor(a / 2^n)
BShr(a, n) ==
  IF n \div LimbBits >= Len(a) THEN <<>>
  ELSE BDivLimb(SubSeq(a, n \div LimbBits + 1, Len(a)), 2^(n % LimbBits))

RECURSIVE LimbLen(_)
LimbLen(x) == IF x = 0 THEN 0 ELSE 1 + LimbLen(x \div 2)

\* the number of bits of a (0 for 0)
BBitLen(a) ==
  IF Len(a) = 0 THEN 0 ELSE (Len(a) - 1) * LimbBits + LimbLen(a[Len(a)])

BIsOdd(a) == Len(a) > 0 /\ a[1] % 2 = 1

RECURSIVE LimbTrail(_)
LimbTrail(x) == IF x % 2 = 1 THEN 0 ELSE 1 + LimbTrail(x \div 2)

RECURSIVE BTrailFrom(_, _)
BTrailFrom(a, i) ==
  IF a[i] = 0 THEN LimbBits + BTrailFrom(a, i + 1) ELSE LimbTrail(a[i])

\* the number of trailing zero bits of a > 0
BTrail(a) == BTrailFrom(a, 1)

RECURSIVE BDivModBits(_, _, _, _, _, _)
RECURSIVE BDivModStep(_, _, _, _, _, _)
\* binary long division over the bits i down to lo of n: remainder r, quotient q
BDivModBits(n, d, i, lo, r, q) ==
  IF i < lo THEN [quot |-> q, rem |-> r]
  ELSE BDivModStep(n, d, i, lo,
         BAdd(BAdd(r, r),
              IF (n[i \div LimbBits + 1] \div 2^(i % LimbBits)) % 2 = 1
              THEN <<1>> ELSE <<>>),
         BAdd(q, q))

\* one bit of the division: r2 and q2 are r and q doubled, the bit added
BDivModStep(n, d, i, lo, r2, q2) ==
  \* Len(q2) >= 0 has TLC compute q2 now rather than at the end
  IF Len(q2) >= 0 /\ BCmp(r2, d) >= 0
  THEN BDivModBits(n, d, i - 1, lo, BSub(r2, d), BAdd(q2, <<1>>))
  ELSE BDivModBits(n, d, i - 1, lo, r2, q2)

RECURSIVE BDivModLimbs(_, _, _, _)
\* the limbs of n from limb j down, one limb of bits at a time
BDivModLimbs(n, d, j, st) ==
  IF j = 0 THEN st
  ELSE BDivModLimbs(n, d, j - 1,
         BDivModBits(n, d, j * LimbBits - 1, (j - 1) * LimbBits, st.rem, st.quot))

RECURSIVE BModLimbFrom(_, _, _, _)
BModLimbFrom(a, d, i, r) ==
  IF i = 0 THEN r ELSE BModLimbFrom(a, d, i - 1, (r * Base + a[i]) % d)

\* a mod d for one limb d > 0
BModLimb(a, d) == BModLimbFrom(a, d, Len(a), 0)

\* [quot, rem] of n / d for d > 0: limb by limb for a one-limb d, else bit by bit
BDivMod(n, d) ==
  IF Len(d) = 1
  THEN [quot |-> BDivLimb(n, d[1]), rem |-> BFromNat(BModLimb(n, d[1]))]
  ELSE BDivModLimbs(n, d, Len(n), [quot |-> <<>>, rem |-> <<>>])

(***************************************************************************)
(* IEEE-754 binary64 values (the JavaScript number type): a record         *)
(* [s, m, e] standing for s * m * 2^e, with s in {1, -1}, m an odd         *)
(* natural of at most 53 bits, and 0 written [s |-> 1, m |-> <<>>,         *)
(* e |-> 0].  Every operation computes the exact result and rounds it to   *)
(* 53 significant bits, ties to even.  The program's values stay far from  *)
(* the overflow and subnormal ranges, which are not modelled; -0 is not    *)
(* told from 0.                                                            *)
(***************************************************************************)
\* 52 stored fraction bits and the implicit leading bit
MantBits == 52 + 1

FZero == [s |-> 1, m |-> <<>>, e |-> 0]

\* the canonical record of s * M * 2^e for M of at most 53 bits
FCanon(s, M, e) ==
  IF Len(M) = 0 THEN FZero
  ELSE LET t == BTrail(M) IN [s |-> s, m |-> BShr(M, t), e |-> e + t]

\* s * M * 2^e rounded to 53 significant bits, ties to even
\* q is M without its sh low bits and c compares those bits with a half
FRoundUp(s, q, e, c) ==
  FCanon(s, IF c > 0 \/ (c = 0 /\ BIsOdd(q)) THEN BAdd(q, <<1>>) ELSE q, e)

FRoundBy(s, M, e, sh, q) ==
  FRoundUp(s, q, e + sh, BCmp(BSub(M, BShl(q, sh)), BShl(<<1>>, sh - 1)))

FRoundTo(s, M, e, sh) == FRoundBy(s, M, e, sh, BShr(M, sh))

FRound(s, M, e) ==
  IF BBitLen(M) <= MantBits THEN FCanon(s, M, e)
  ELSE FRoundTo(s, M, e, BBitLen(M) - MantBits)

FromInt(n) ==
  FCanon(IF n >= 0 THEN 1 ELSE -1, BFromNat(IF n >= 0 THEN n ELSE -n), 0)

FNeg(a) == IF Len(a.m) = 0 THEN a ELSE [a EXCEPT !.s = -a.s]

MinE(a, b) == IF a.e < b.e THEN a.e ELSE b.e

\* -1, 0, 1 as |a| < |b|, |a| = |b|, |a| > |b|
FMagCmp(a, b) ==
  BCmp(BShl(a.m, a.e - MinE(a, b)), BShl(b.m, b.e - MinE(a, b)))

\* -1, 0, 1 as a < b, a = b, a > b
FCmp(a, b) ==
  IF Len(a.m) = 0 /\ Len(b.m) = 0 THEN 0
  ELSE IF Len(a.m) = 0 THEN -b.s
  ELSE IF Len(b.m) = 0 THEN a.s
  ELSE IF a.s # b.s THEN a.s
  ELSE a.s * FMagCmp(a, b)

FLt(a, b) == FCmp(a, b) < 0
FLe(a, b) == FCmp(a, b) <= 0
FGt(a, b) == FCmp(a, b) > 0
FGe(a, b) == FCmp(a, b) >= 0

\* x and y are the magnitudes of a and b in units of 2^em, c compares them
FAddAligned(a, b, em, x, y, c) ==
  IF a.s # b.s /\ c = 0 THEN FZero
  ELSE FRound(IF a.s = b.s \/ c > 0 THEN a.s ELSE b.s,
              IF a.s = b.s THEN BAdd(x, y)
              ELSE IF c > 0 THEN BSub(x, y) ELSE BSub(y, x),
              em)

FAddAt(a, b, em, x, y) == FAddAligned(a, b, em, x, y, BCmp(x, y))

FAdd(a, b) ==
  IF Len(a.m) = 0 THEN b
  ELSE IF Len(b.m) = 0 THEN a
  ELSE FAddAt(a, b, MinE(a, b), BShl(a.m, a.e - MinE(a, b)),
              BShl(b.m, b.e - MinE(a, b)))

FSub(a, b) == FAdd(a, FNeg(b))

FMul(a, b) ==
  IF Len(a.m) = 0 \/ Len(b.m) = 0 THEN FZero
  ELSE FRound(a.s * b.s, BMul(a.m, b.m), a.e + b.e)

\* a / b for b # 0: a quotient of at least 56 bits and a sticky bit, rounded
FDivSticky(a, b, sh, dm) ==
  FRound(a.s * b.s,
         BAdd(BAdd(dm.quot, dm.quot), IF Len(dm.rem) = 0 THEN <<>> ELSE <<1>>),
         a.e - b.e - sh - 1)

FDivShifted(a, b, sh) == FDivSticky(a, b, sh, BDivMod(BShl(a.m, sh), b.m))

FDivWant(a, b, want) == FDivShifted(a, b, IF want > 0 THEN want ELSE 0)

FDiv(a, b) ==
  IF Len(a.m) = 0 THEN FZero
  ELSE FDivWant(a, b, MantBits + 3 + BBitLen(b.m) - BBitLen(a.m))

\* the number a decimal literal n/d denotes (d a power of 10): the nearest binary64
FDec(n, d) == FDiv(FromInt(n), FromInt(d))

FMax(a, b) == IF FGe(a, b) THEN a ELSE b
FMin(a, b) == IF FLe(a, b) THEN a ELSE b

\* Math.round: floor(x + 1/2) computed exactly, as an integer
MathRound(a) ==
  IF Len(a.m) = 0 THEN 0
  ELSE IF a.e >= 0 THEN a.s * BToNat(BShl(a.m, a.e))
  ELSE LET k    == -a.e
           up   == BToNat(BShr(BAdd(a.m, BShl(<<1>>, k - 1)), k))
       IN  IF a.s = 1 THEN up
           ELSE IF k = 1 THEN -(up - 1) ELSE -up

\* Math.floor, as an integer
MathFloor(a) ==
  IF Len(a.m) = 0 THEN 0
  ELSE IF a.e >= 0 THEN a.s * BToNat(BShl(a.m, a.e))
  ELSE IF a.s = 1 THEN BToNat(BShr(a.m, -a.e))
  ELSE -(BToNat(BShr(a.m, -a.e)) + 1)

FIsInt(a) == a.e >= 0

(***************************************************************************)
(* DiagnosticEngine (services/diagnosticEngine).  A CityVitals record      *)
(* holds binary64 numbers and status / trend strings; the description      *)
(* strings, which no operation reads, are left out.                        *)
(***************************************************************************)
F0 == FromInt(0)
F1 == FromInt(1)
F3 == FromInt(3)
F0_5 == FDec(5, 10)
F0_8 == FDec(8, 10)
F0_3 == FDec(3, 10)
F0_6 == FDec(6, 10)
F0_2 == FDec(2, 10)
F0_4 == FDec(4, 10)
F0_7 == FDec(7, 10)
F0_15 == FDec(15, 100)
F0_20 == FDec(20, 100)
F0_25 == FDec(25, 100)
F5 == FromInt(5)
F10 == FromInt(10)
F15 == FromInt(15)
F20 == FromInt(20)
F25 == FromInt(25)
F30 == FromInt(30)
F35 == FromInt(35)
F50 == FromInt(50)
F100 == FromInt(100)

HEALTH_THRESHOLDS ==
  [excellent |-> 90, good |-> 75, fair |-> 60, poor |-> 40, critical |-> 0]

CATEGORY_WEIGHTS ==
  [heartRate    |-> F0_15,
   temperature  |-> F0_20,
   bloodOxygen  |-> F0_25,
   immuneSystem |-> F0_25,
   infections   |-> F0_15]

\* Variant: the lower bound forgotten, Math.min(100, score)
Clamp100NoFloor(score) == FMin(F100, score)

\* Math.max(0, Math.min(100, score))
Clamp100(score) == FMax(F0, FMin(F100, score))

\* if (trend === 'increasing') score += 5; else if (trend === 'decreasing') score -= 5
HeartRateTrend(score, trend) ==
  IF trend = "increasing" THEN FAdd(score, F5)
  ELSE IF trend = "decreasing" THEN FSub(score, F5)
  ELSE score

\* if (status === 'critical') score *= 0.5; else if (status === 'elevated') score *= 0.8
HeartRateStatus(score, status) ==
  IF status = "critical" THEN FMul(score, F0_5)
  ELSE IF status = "elevated" THEN FMul(score, F0_8)
  ELSE score

\* Variant: the status factor applied before the trend adjustment
calculateHeartRateScoreFactorFirst(heartRate) ==
  Clamp100(HeartRateTrend(HeartRateStatus(heartRate.value, heartRate.status),
                          heartRate.trend))

calculateHeartRateScore(heartRate) ==
  Clamp100(HeartRateStatus(HeartRateTrend(heartRate.value, heartRate.trend),
                           heartRate.status))

\* the penalty of the temperature
TemperatureBand(score, value) ==
  IF FGt(value, F35) THEN FSub(score, F30)
  ELSE IF FGt(value, F30) THEN FSub(score, F20)
  ELSE IF FGt(value, F25) THEN FSub(score, F10)
  ELSE score

\* the penalty of the heat island effect
HeatIslandBand(score, heatIslandEffect) ==
  IF FGt(heatIslandEffect, F5) THEN FSub(score, F25)
  ELSE IF FGt(heatIslandEffect, F3) THEN FSub(score, F15)
  ELSE IF FGt(heatIslandEffect, F1) THEN FSub(score, F5)
  ELSE score

TemperatureTrend(score, trend) ==
  IF trend = "increasing" THEN FSub(score, F10)
  ELSE IF trend = "decreasing" THEN FAdd(score, F5)
  ELSE score

TemperatureStatus(score, status) ==
  IF status = "critical" THEN FMul(score, F0_3)
  ELSE IF status = "fever" THEN FMul(score, F0_6)
  ELSE score

calculateTemperatureScore(temperature) ==
  LET s1 == TemperatureBand(F100, temperature.value)
      s2 == HeatIslandBand(s1, temperature.heatIslandEffect)
      s3 == TemperatureTrend(s2, temperature.trend)
      s4 == TemperatureStatus(s3, temperature.status)
  IN  Clamp100(s4)

\* the penalty of the average pollutant level
PollutantBand(score, avgPollutants) ==
  IF FGt(avgPollutants, F50) THEN FSub(score, F30)
  ELSE IF FGt(avgPollutants, F30) THEN FSub(score, F20)
  ELSE IF FGt(avgPollutants, F15) THEN FSub(score, F10)
  ELSE score

AirQualityTrend(score, trend) ==
  IF trend = "worsening" THEN FSub(score, F15)
  ELSE IF trend = "improving" THEN FAdd(score, F10)
  ELSE score

AirQualityStatus(score, status) ==
  IF status = "hazardous" THEN FMul(score, F0_2)
  ELSE IF status = "unhealthy" THEN FMul(score, F0_5)
  ELSE score

calculateAirQualityScore(bloodOxygen) ==
  LET s0 == FSub(F100, bloodOxygen.value)
      avgPollutants ==
        FDiv(FAdd(FAdd(bloodOxygen.pollutants.no2, bloodOxygen.pollutants.pm25),
                  bloodOxygen.pollutants.o3), F3)
      s1 == PollutantBand(s0, avgPollutants)
      s2 == AirQualityTrend(s1, bloodOxygen.trend)
      s3 == AirQualityStatus(s2, bloodOxygen.status)
  IN  Clamp100(s3)

\* the bonus or penalty of the vegetation index
NdviBand(score, ndvi) ==
  IF FGt(ndvi, F0_7) THEN FAdd(score, F20)
  ELSE IF FGt(ndvi, F0_5) THEN FAdd(score, F10)
  ELSE IF FLt(ndvi, F0_2) THEN FSub(score, F20)
  ELSE score

GreenSpaceTrend(score, trend) ==
  IF trend = "improving" THEN FAdd(score, F10)
  ELSE IF trend = "declining" THEN FSub(score, F15)
  ELSE score

GreenSpaceStatus(score, status) ==
  IF status = "compromised" THEN FMul(score, F0_4)
  ELSE IF status = "weak" THEN FMul(score, F0_7)
  ELSE score

calculateGreenSpaceScore(immuneSystem) ==
  LET s1 == NdviBand(immuneSystem.greenSpaceCoverage, immuneSystem.ndvi)
      s2 == GreenSpaceTrend(s1, immuneSystem.trend)
      s3 == GreenSpaceStatus(s2, immuneSystem.status)
  IN  Clamp100(s3)

InfectionsStatus(score, status) ==
  IF status = "critical" THEN FMul(score, F0_2)
  ELSE IF status = "infected" THEN FMul(score, F0_5)
  ELSE score

calculateInfectionsScore(infections) ==
  LET totalHazards == FAdd(infections.disasterEvents, infections.pollutionHotspots)
      s1 == FSub(F100, FMul(totalHazards, F15))
      s2 == InfectionsStatus(s1, infections.status)
  IN  Clamp100(s2)

calculateCategoryScores(cityVitals) ==
  << [category |-> "Heart Rate (Urban Activity)",
      score    |-> calculateHeartRateScore(cityVitals.heartRate),
      weight   |-> CATEGORY_WEIGHTS.heartRate,
      status   |-> cityVitals.heartRate.status],
     [category |-> "Temperature (Heat Island)",
      score    |-> calculateTemperatureScore(cityVitals.temperature),
      weight   |-> CATEGORY_WEIGHTS.temperature,
      status   |-> cityVitals.temperature.status],
     [category |-> "Air Quality",
      score    |-> calculateAirQualityScore(cityVitals.bloodOxygen),
      weight   |-> CATEGORY_WEIGHTS.bloodOxygen,
      status   |-> cityVitals.bloodOxygen.status],
     [category |-> "Green Space",
      score    |-> calculateGreenSpaceScore(cityVitals.immuneSystem),
      weight   |-> CATEGORY_WEIGHTS.immuneSystem,
      status   |-> cityVitals.immuneSystem.status],
     [category |-> "Environmental Hazards",
      score    |-> calculateInfectionsScore(cityVitals.infections),
      weight   |-> CATEGORY_WEIGHTS.infections,
      status   |-> cityVitals.infections.status] >>

RECURSIVE WeightedSumFrom(_, _, _)
\* categoryScores.reduce((sum, category) => sum + category.score * category.weight, 0)
WeightedSumFrom(categoryScores, i, sum) ==
  IF i > Len(categoryScores) THEN sum
  ELSE WeightedSumFrom(categoryScores, i + 1,
         FAdd(sum, FMul(categoryScores[i].score, categoryScores[i].weight)))

calculateOverallScore(categoryScores) ==
  MathRound(WeightedSumFrom(categoryScores, 1, F0))

DiagExcellent == "This city is in excellent health! All vital signs are strong, showing a well-balanced urban ecosystem with good air quality, adequate green space, and minimal environmental hazards."
DiagGood == "The city shows good overall health with minor areas for improvement. Most vital signs are within normal ranges, but there may be some environmental concerns to address."
DiagFair == "The city's health is fair but requires attention. Several vital signs indicate moderate stress, particularly in air quality or heat management. Immediate action is recommended."
DiagPoor == "The city is showing signs of poor health with multiple concerning vital signs. Environmental stress is evident, and comprehensive intervention is needed to restore urban wellness."
DiagCritical == "CRITICAL: The city is in poor health with multiple critical vital signs. Immediate environmental intervention is required to prevent further degradation of urban health."

generateDiagnosisText(score, cityVitals) ==
  IF score >= 90 THEN DiagExcellent
  ELSE IF score >= 75 THEN DiagGood
  ELSE IF score >= 60 THEN DiagFair
  ELSE IF score >= 40 THEN DiagPoor
  ELSE DiagCritical

\* the recommendation strings, without their leading emoji
AirQualityRecs ==
  << "Implement low-emission zones and promote electric vehicle adoption",
     "Increase urban tree canopy to filter air pollutants",
     "Develop comprehensive bike lane networks to reduce vehicle emissions" >>
HeatRecs ==
  << "Mandate cool roof technologies for new and existing buildings",
     "Create green corridors to channel cool air through the city",
     "Implement water features and reflective surfaces in public spaces" >>
GreenSpaceRecs ==
  << "Establish pocket parks and community gardens in underserved areas",
     "Develop green infrastructure corridors connecting parks and natural areas",
     "Require green space minimums in new development projects" >>
DisasterRecs ==
  << "Strengthen infrastructure resilience against natural disasters",
     "Implement early warning systems for environmental hazards",
     "Develop climate-adaptive building codes and zoning regulations" >>
UrbanActivityRecs ==
  << "Promote mixed-use development to reduce urban sprawl",
     "Improve public transportation to reduce traffic congestion",
     "Implement smart city technologies for efficient resource management" >>
GeneralRecs ==
  << "Continue monitoring urban health indicators",
     "Set up long-term environmental monitoring systems",
     "Engage community in urban health initiatives" >>

\* recommendations.slice(0, 5)
Slice5(recs) == SubSeq(recs, 1, IF Len(recs) < 5 THEN Len(recs) ELSE 5)

\* the groups pushed, in the order of the code, as the variants below use them
RecommendationsOf(cityVitals) ==
  LET r1 == IF cityVitals.bloodOxygen.status \in {"hazardous", "unhealthy"}
            THEN AirQualityRecs ELSE <<>>
      r2 == IF cityVitals.temperature.status \in {"critical", "fever"}
            THEN r1 \o HeatRecs ELSE r1
      r3 == IF cityVitals.immuneSystem.status \in {"weak", "compromised"}
            THEN r2 \o GreenSpaceRecs ELSE r2
      r4 == IF cityVitals.infections.status \in {"critical", "infected"}
            THEN r3 \o DisasterRecs ELSE r3
  IN  IF cityVitals.heartRate.status \in {"critical", "elevated"}
      THEN r4 \o UrbanActivityRecs ELSE r4

\* Variant: the final slice(0, 5) forgotten
generateRecommendationsUncapped(cityVitals, categoryScores) ==
  IF Len(RecommendationsOf(cityVitals)) = 0 THEN GeneralRecs
  ELSE RecommendationsOf(cityVitals)

\* Variant: the heat group pushed before the air-quality group
generateRecommendationsHeatFirst(cityVitals, categoryScores) ==
  LET r1 == IF cityVitals.temperature.status \in {"critical", "fever"}
            THEN HeatRecs ELSE <<>>
      r2 == IF cityVitals.bloodOxygen.status \in {"hazardous", "unhealthy"}
            THEN r1 \o AirQualityRecs ELSE r1
      r3 == IF cityVitals.immuneSystem.status \in {"weak", "compromised"}
            THEN r2 \o GreenSpaceRecs ELSE r2
      r4 == IF cityVitals.infections.status \in {"critical", "infected"}
            THEN r3 \o DisasterRecs ELSE r3
      r5 == IF cityVitals.heartRate.status \in {"critical", "elevated"}
            THEN r4 \o UrbanActivityRecs ELSE r4
  IN  Slice5(IF Len(r5) = 0 THEN GeneralRecs ELSE r5)

\* Variant: the general group pushed whenever fewer than 5 items were pushed
generateRecommendationsPadded(cityVitals, categoryScores) ==
  Slice5(IF Len(RecommendationsOf(cityVitals)) < 5
         THEN RecommendationsOf(cityVitals) \o GeneralRecs
         ELSE RecommendationsOf(cityVitals))

generateRecommendations(cityVitals, categoryScores) ==
  LET r1 == IF cityVitals.bloodOxygen.status \in {"hazardous", "unhealthy"}
            THEN AirQualityRecs ELSE <<>>
      r2 == IF cityVitals.temperature.status \in {"critical", "fever"}
            THEN r1 \o HeatRecs ELSE r1
      r3 == IF cityVitals.immuneSystem.status \in {"weak", "compromised"}
            THEN r2 \o GreenSpaceRecs ELSE r2
      r4 == IF cityVitals.infections.status \in {"critical", "infected"}
            THEN r3 \o DisasterRecs ELSE r3
      r5 == IF cityVitals.heartRate.status \in {"critical", "elevated"}
            THEN r4 \o UrbanActivityRecs ELSE r4
      r6 == IF Len(r5) = 0 THEN GeneralRecs ELSE r5
  IN  Slice5(r6)

\* Variant: the low band starting above, not at, 75
determineSeverityStrict(score) ==
  IF score > 75 THEN "low"
  ELSE IF score >= 60 THEN "medium"
  ELSE IF score >= 40 THEN "high"
  ELSE "critical"

determineSeverity(score) ==
  IF score >= 75 THEN "low"
  ELSE IF score >= 60 THEN "medium"
  ELSE IF score >= 40 THEN "high"
  ELSE "critical"

\* the DiagnosticResult returned by generateDiagnosis
DiagnosticResult(cityVitals, categoryScores, overallScore) ==
  [overallScore    |-> overallScore,
   categoryScores  |-> categoryScores,
   diagnosis       |-> generateDiagnosisText(overallScore, cityVitals),
   recommendations |-> generateRecommendations(cityVitals, categoryScores),
   severity        |-> determineSeverity(overallScore)]

\* generateDiagnosis from const overallScore on
Scored(cityVitals, categoryScores) ==
  DiagnosticResult(cityVitals, categoryScores,
                   calculateOverallScore(categoryScores))

generateDiagnosis(cityVitals) ==
  Scored(cityVitals, calculateCategoryScores(cityVitals))

(***************************************************************************)
(* A caller of the engine.  The engine is a static class without fields:   *)
(* generateDiagnosis reads its argument and the readonly tables only.  The *)
(* CityVitals it is given are drawn from the sets below: every combination *)
(* of the five statuses over two sets of readings, and, for each category, *)
(* every reading, status and trend of that category, readings outside the  *)
(* documented ranges included.                                             *)
(***************************************************************************)
MaxHazards == 4

HeartStatuses  == {"normal", "elevated", "critical"}
TempStatuses   == {"normal", "fever", "critical"}
AirStatuses    == {"healthy", "unhealthy", "hazardous"}
GreenStatuses  == {"strong", "weak", "compromised"}
HazardStatuses == {"clean", "infected", "critical"}
Trends         == {"increasing", "stable", "decreasing"}
AirTrends      == {"improving", "stable", "worsening"}
GreenTrends    == {"improving", "stable", "declining"}

\* the overallHealth that processCityVitals and generateMockVitals start from
PlaceholderHealth ==
  [score |-> 0, status |-> "fair", diagnosis |-> "", recommendations |-> <<>>]

HeartRate(value, status, trend) ==
  [value |-> value, status |-> status, trend |-> trend]
Temperature(value, heatIslandEffect, status, trend) ==
  [value |-> value, heatIslandEffect |-> heatIslandEffect,
   status |-> status, trend |-> trend]
BloodOxygen(value, no2, pm25, o3, status, trend) ==
  [value |-> value, pollutants |-> [no2 |-> no2, pm25 |-> pm25, o3 |-> o3],
   status |-> status, trend |-> trend]
ImmuneSystem(greenSpaceCoverage, ndvi, status, trend) ==
  [greenSpaceCoverage |-> greenSpaceCoverage, ndvi |-> ndvi,
   status |-> status, trend |-> trend]
Infections(disasterEvents, pollutionHotspots, status) ==
  [disasterEvents |-> disasterEvents, pollutionHotspots |-> pollutionHotspots,
   status |-> status]

\* every category at its best: each category score is 100
HealthyVitals ==
  [heartRate    |-> HeartRate(F100, "normal", "stable"),
   temperature  |-> Temperature(F20, F0, "normal", "stable"),
   bloodOxygen  |-> BloodOxygen(F0, F0, F0, F0, "healthy", "stable"),
   immuneSystem |-> ImmuneSystem(FromInt(80), F0_8, "strong", "stable"),
   infections   |-> Infections(F0, F0, "clean"),
   overallHealth |-> PlaceholderHealth]

\* a heat wave (42 C) with three recent earthquakes, as processCityVitals
\* assembles it when the air-quality fetch fails
StressedVitals ==
  [heartRate    |-> HeartRate(FromInt(96), "normal", "stable"),
   temperature  |-> Temperature(FromInt(42), F5, "critical", "increasing"),
   bloodOxygen  |-> BloodOxygen(F0, F0, F0, F0, "healthy", "stable"),
   immuneSystem |-> ImmuneSystem(FromInt(11), F0_4, "strong", "stable"),
   infections   |-> Infections(F3, F0, "critical"),
   overallHealth |-> PlaceholderHealth]

Baselines == {HealthyVitals, StressedVitals}

HeartValues == {FromInt(n) : n \in {-10, 0, 50, 96, 100, 130}}

\* << value, heatIslandEffect >>
TempReadings ==
  { <<F20, F0>>, <<F25, F1>>, <<FDec(251, 10), FDec(15, 10)>>, <<F30, F3>>,
    <<FDec(301, 10), FDec(35, 10)>>, <<F35, F5>>,
    <<FDec(351, 10), FDec(51, 10)>>, <<FromInt(42), F5>>, <<FromInt(-5), F0>> }

\* << value (AQI), no2, pm25, o3 >>
AirReadings ==
  { <<F0, F0, F0, F0>>, <<F30, F15, F15, F15>>, <<F30, F15, F15, FromInt(16)>>,
    <<FDec(455, 10), F30, F30, F30>>, <<F100, F30, F30, FromInt(31)>>,
    <<FromInt(150), F50, F50, F50>>, <<FromInt(180), F50, F50, FromInt(51)>>,
    <<FromInt(-20), F0, F0, F0>> }

\* << greenSpaceCoverage, ndvi >>
GreenReadings ==
  { <<FromInt(11), F0_4>>, <<FromInt(-5), FDec(1, 10)>>, <<F0, F0_2>>,
    <<F25, F0_5>>, <<FromInt(40), FDec(51, 100)>>, <<FromInt(80), F0_7>>,
    <<FromInt(80), F0_8>>, <<FromInt(120), F1>> }

HazardCounts == {FromInt(n) : n \in 0..MaxHazards}

StatusSlice ==
  { [b EXCEPT !.heartRate.status = h, !.temperature.status = t,
              !.bloodOxygen.status = a, !.immuneSystem.status = g,
              !.infections.status = i] :
      b \in Baselines, h \in HeartStatuses, t \in TempStatuses,
      a \in AirStatuses, g \in GreenStatuses, i \in HazardStatuses }

HeartSlice ==
  { [b EXCEPT !.heartRate = HeartRate(v, st, tr)] :
      b \in Baselines, v \in HeartValues, st \in HeartStatuses, tr \in Trends }

TempSlice ==
  { [b EXCEPT !.temperature = Temperature(r[1], r[2], st, tr)] :
      b \in Baselines, r \in TempReadings, st \in TempStatuses, tr \in Trends }

AirSlice ==
  { [b EXCEPT !.bloodOxygen = BloodOxygen(r[1], r[2], r[3], r[4], st, tr)] :
      b \in Baselines, r \in AirReadings, st \in AirStatuses, tr \in AirTrends }

GreenSlice ==
  { [b EXCEPT !.immuneSystem = ImmuneSystem(r[1], r[2], st, tr)] :
      b \in Baselines, r \in GreenReadings, st \in GreenStatuses,
      tr \in GreenTrends }

HazardSlice ==
  { [b EXCEPT !.infections = Infections(d, h, st)] :
      b \in Baselines, d \in HazardCounts, h \in HazardCounts,
      st \in HazardStatuses }

EngineInputs ==
  StatusSlice \cup HeartSlice \cup TempSlice \cup AirSlice \cup GreenSlice
    \cup HazardSlice

InitApp ==
  /\ selectedLocation = Null
  /\ vitals = Null
  /\ isLoading = FALSE
  /\ error = Null
  /\ useMockData = FALSE
  /\ pc = "idle"
  /\ airQualityData = Null
  /\ earthquakeData = Null
  /\ weatherData = Null
  /\ processedVitals = Null
  /\ now = 0
  /\ ServicesAbstracted

InitEngine ==
  /\ InitApp
  /\ subject \in EngineInputs
  /\ result = Null

\* const diagnosis = DiagnosticEngine.generateDiagnosis(subject)
Diagnose ==
  /\ result = Null
  /\ result' = generateDiagnosis(subject)
  /\ UNCHANGED << appVars, serviceVars, now, subject >>

SpecEngine == InitEngine /\ [][Diagnose]_vars

(***************************************************************************)
(* The passing of time: Date.now() as the normalizers, the validators and  *)
(* the query read it, day by day up to MaxNow.                             *)
(***************************************************************************)
MaxNow == 1

\* time passes
Tick ==
  /\ now < MaxNow
  /\ now' = now + 1
  /\ UNCHANGED << appVars, serviceVars, subject, result >>

(***************************************************************************)
(* AirQualityService.processAirQualityData (services/airQualityAPI).  An   *)
(* OpenAQResponse is [results |-> a sequence of                            *)
(* [measurements |-> a sequence of [parameter, value]]].  A response that  *)
(* the upstream API sends may lack any of its fields; reading a property   *)
(* of undefined throws a TypeError, for which [thrown |-> message] stands, *)
(* with the message of V8.                                                 *)
(***************************************************************************)
\* JavaScript undefined, the value of a field that is not there
Undefined == [undefined |-> TRUE]

F12    == FromInt(12)
F40    == FromInt(40)
F60    == FromInt(60)
F95    == FromInt(95)
F150   == FromInt(150)
F250   == FromInt(250)
F350   == FromInt(350)
F500   == FromInt(500)
F23_4  == FDec(234, 10)
F35_4  == FDec(354, 10)
F55_4  == FDec(554, 10)
F149_6 == FDec(1496, 10)
F150_4 == FDec(1504, 10)
F250_4 == FDec(2504, 10)

RECURSIVE FlatMapMeasurements(_, _)
\* response.results.flatMap(result => result.measurements), from result i on
FlatMapMeasurements(results, i) ==
  IF i > Len(results) THEN <<>>
  ELSE (IF "measurements" \in DOMAIN results[i]
        THEN results[i].measurements
        ELSE << Undefined >>) \o FlatMapMeasurements(results, i + 1)

RECURSIVE SumFrom(_, _, _)
\* values.reduce((sum, val) => sum + val, 0), from value i on
SumFrom(values, i, sum) ==
  IF i > Len(values) THEN sum
  ELSE SumFrom(values, i + 1, FAdd(sum, values[i].value))

getAverageMeasurement(measurements, parameter) ==
  LET values == SelectSeq(measurements,
                          LAMBDA m : m.parameter = parameter /\ m.value # Null)
  IN  IF Len(values) = 0 THEN F0
      ELSE FDiv(SumFrom(values, 1, F0), FromInt(Len(values)))

\* Variant: the fourth segment divided by 100, the span of the fifth
AQIOfWrongSpan(pm25) ==
  IF FLe(pm25, F12) THEN FMax(F0, FMul(FDiv(pm25, F12), F50))
  ELSE IF FLe(pm25, F35_4)
    THEN FAdd(F50, FMul(FDiv(FSub(pm25, F12), F23_4), F50))
  ELSE IF FLe(pm25, F55_4)
    THEN FAdd(F100, FMul(FDiv(FSub(pm25, F35_4), F20), F50))
  ELSE IF FLe(pm25, F150_4)
    THEN FAdd(F150, FMul(FDiv(FSub(pm25, F55_4), F100), F100))
  ELSE IF FLe(pm25, F250_4)
    THEN FAdd(F250, FMul(FDiv(FSub(pm25, F150_4), F100), F100))
  ELSE FMin(F500, FAdd(F350, FMul(FDiv(FSub(pm25, F250_4), F149_6), F150)))

AQIOf(pm25) ==
  IF FLe(pm25, F12) THEN FMax(F0, FMul(FDiv(pm25, F12), F50))
  ELSE IF FLe(pm25, F35_4)
    THEN FAdd(F50, FMul(FDiv(FSub(pm25, F12), F23_4), F50))
  ELSE IF FLe(pm25, F55_4)
    THEN FAdd(F100, FMul(FDiv(FSub(pm25, F35_4), F20), F50))
  ELSE IF FLe(pm25, F150_4)
    THEN FAdd(F150, FMul(FDiv(FSub(pm25, F55_4), F95), F100))
  ELSE IF FLe(pm25, F250_4)
    THEN FAdd(F250, FMul(FDiv(FSub(pm25, F150_4), F100), F100))
  ELSE FMin(F500, FAdd(F350, FMul(FDiv(FSub(pm25, F250_4), F149_6), F150)))

calculateAQI(pollutants) == AQIOf(pollutants.pm25)

determineAirQualityStatus(aqi) ==
  IF FLe(aqi, F50) THEN "healthy"
  ELSE IF FLe(aqi, F150) THEN "unhealthy"
  ELSE "hazardous"

TrendOf(avgPollution) ==
  IF FLt(avgPollution, F10) THEN "improving"
  ELSE IF FGt(avgPollution, F30) THEN "worsening"
  ELSE "stable"

determineTrend(pollutants) ==
  TrendOf(FDiv(FAdd(FAdd(pollutants.no2, pollutants.pm25), pollutants.o3), F3))

\* processAirQualityData from const aqi on
AirQualityOf(pollutants, aqi) ==
  [aqi |-> aqi, pollutants |-> pollutants,
   status |-> determineAirQualityStatus(aqi),
   trend |-> determineTrend(pollutants)]

\* processAirQualityData from const pollutants on
AirQualityFrom(measurements) ==
  IF \E i \in 1..Len(measurements) : measurements[i] = Undefined
  THEN \* m.parameter of the filter in getAverageMeasurement
       [thrown |-> "Cannot read properties of undefined (reading 'parameter')"]
  ELSE LET pollutants ==
             [no2  |-> getAverageMeasurement(measurements, "no2"),
              pm25 |-> getAverageMeasurement(measurements, "pm25"),
              o3   |-> getAverageMeasurement(measurements, "o3")]
       IN  AirQualityOf(pollutants, calculateAQI(pollutants))

processAirQualityData(response) ==
  IF "results" \notin DOMAIN response \/ Len(response.results) = 0
  THEN [aqi |-> F0, pollutants |-> [no2 |-> F0, pm25 |-> F0, o3 |-> F0],
        status |-> "healthy", trend |-> "stable"]
  ELSE AirQualityFrom(FlatMapMeasurements(response.results, 1))

(***************************************************************************)
(* EarthquakeService.processEarthquakeData (services/earthquakeAPI).  A    *)
(* USGSEarthquakeResponse is [features |-> a sequence of                   *)
(* [properties |-> [time |-> the day of the event]]]; times are in days,   *)
(* like now.                                                               *)
(***************************************************************************)
RecentDays == 30

processEarthquakeData(response) ==
  IF "features" \notin DOMAIN response \/ Len(response.features) = 0
  THEN [disasterEvents |-> F0, pollutionHotspots |-> F0, status |-> "clean"]
  ELSE IF \E i \in 1..Len(response.features) :
            "properties" \notin DOMAIN response.features[i]
  THEN \* earthquake.properties.time in the filter
       [thrown |-> "Cannot read properties of undefined (reading 'time')"]
  ELSE LET recentEarthquakes ==
             SelectSeq(response.features,
                       LAMBDA earthquake :
                         now - earthquake.properties.time <= RecentDays)
           disasterEvents == Len(recentEarthquakes)
       IN  [disasterEvents    |-> FromInt(disasterEvents),
            pollutionHotspots |-> F0,
            status |-> IF disasterEvents = 0 THEN "clean"
                       ELSE IF disasterEvents <= 2 THEN "infected"
                       ELSE "critical"]

(***************************************************************************)
(* WeatherService.processWeatherData (services/weatherAPI).  A             *)
(* WeatherResponse is [main |-> [temp |-> degrees Celsius]].               *)
(***************************************************************************)
F1_5 == FDec(15, 10)

estimateHeatIslandEffect(temperature) ==
  IF FGt(temperature, F35) THEN F5
  ELSE IF FGt(temperature, F30) THEN F3
  ELSE IF FGt(temperature, F25) THEN F1_5
  ELSE IF FGt(temperature, F20) THEN F0_5
  ELSE F0

\* Variant: the thresholds included, >= for >
determineTemperatureStatusInclusive(temperature) ==
  IF FGe(temperature, F40) THEN "critical"
  ELSE IF FGe(temperature, F35) THEN "fever"
  ELSE "normal"

determineTemperatureStatus(temperature) ==
  IF FGt(temperature, F40) THEN "critical"
  ELSE IF FGt(temperature, F35) THEN "fever"
  ELSE "normal"

determineTemperatureTrend(temperature) ==
  IF FGt(temperature, F30) THEN "increasing"
  ELSE IF FLt(temperature, F15) THEN "decreasing"
  ELSE "stable"

processWeatherData(response) ==
  IF "main" \notin DOMAIN response
  THEN \* response.main.temp
       [thrown |-> "Cannot read properties of undefined (reading 'temp')"]
  ELSE IF "temp" \notin DOMAIN response.main
  THEN \* temperature.toFixed(1) in generateTemperatureDescription
       [thrown |-> "Cannot read properties of undefined (reading 'toFixed')"]
  ELSE
  LET temperature == response.main.temp IN
  [temperature      |-> temperature,
   heatIslandEffect |-> estimateHeatIslandEffect(temperature),
   status           |-> determineTemperatureStatus(temperature),
   trend            |-> determineTemperatureTrend(temperature)]

(***************************************************************************)
(* App (App.tsx): processCityVitals.  The three results are those of       *)
(* Promise.allSettled: [status |-> "fulfilled", value |-> response] or     *)
(* [status |-> "rejected", reason |-> message].  random holds the three    *)
(* draws of Math.random() in the order of the calls.                       *)
(***************************************************************************)
DefaultAirQuality ==
  [aqi |-> F0, pollutants |-> [no2 |-> F0, pm25 |-> F0, o3 |-> F0],
   status |-> "healthy", trend |-> "stable"]

DefaultDisasterData ==
  [disasterEvents |-> F0, pollutionHotspots |-> F0, status |-> "clean"]

DefaultTemperatureData ==
  [temperature |-> F20, heatIslandEffect |-> F0, status |-> "normal",
   trend |-> "stable"]

\* mockVitals.overallHealth = {...}; return mockVitals
WithOverallHealth(mockVitals, diagnosis) ==
  [mockVitals EXCEPT !.overallHealth =
     [score  |-> diagnosis.overallScore,
      status |-> IF diagnosis.severity = "low" THEN "excellent"
                 ELSE IF diagnosis.severity = "medium" THEN "good"
                 ELSE IF diagnosis.severity = "high" THEN "fair"
                 ELSE "poor",
      diagnosis       |-> diagnosis.diagnosis,
      recommendations |-> diagnosis.recommendations]]

\* processCityVitals from const diagnosis on
Diagnosed(mockVitals) ==
  WithOverallHealth(mockVitals, generateDiagnosis(mockVitals))

\* the second half of processCityVitals: mockVitals, diagnosed
DiagnosedVitals(airQuality, disasterData, temperatureData, random) ==
  Diagnosed(
    [heartRate |->
       HeartRate(FromInt(MathFloor(FMul(random.heartRate, F40)) + 60),
                 "normal", "stable"),
     temperature |->
       Temperature(temperatureData.temperature,
                   temperatureData.heatIslandEffect,
                   temperatureData.status, temperatureData.trend),
     bloodOxygen |->
       [value |-> airQuality.aqi, pollutants |-> airQuality.pollutants,
        status |-> airQuality.status, trend |-> airQuality.trend],
     immuneSystem |->
       ImmuneSystem(FromInt(MathFloor(FMul(random.greenSpaceCoverage, F30)) + 10),
                    FAdd(FMul(random.ndvi, F0_8), F0_2),
                    "strong", "stable"),
     infections |->
       Infections(disasterData.disasterEvents,
                  disasterData.pollutionHotspots, disasterData.status),
     overallHealth |-> PlaceholderHealth])

\* Variant: a rejected source discards the results of the other sources
processCityVitalsAllOrNothing(location, airQualityResult, earthquakeResult, weatherResult, random) ==
  IF /\ airQualityResult.status = "fulfilled"
     /\ earthquakeResult.status = "fulfilled"
     /\ weatherResult.status = "fulfilled"
  THEN DiagnosedVitals(processAirQualityData(airQualityResult.value),
                       processEarthquakeData(earthquakeResult.value),
                       processWeatherData(weatherResult.value), random)
  ELSE DiagnosedVitals(DefaultAirQuality, DefaultDisasterData,
                       DefaultTemperatureData, random)

\* Variant: the earthquake data required: its rejection is thrown on
processCityVitalsSeismicRequired(location, airQualityResult, earthquakeResult, weatherResult, random) ==
  IF earthquakeResult.status = "rejected"
  THEN [thrown |-> earthquakeResult.reason]
  ELSE DiagnosedVitals(
         IF airQualityResult.status = "fulfilled"
         THEN processAirQualityData(airQualityResult.value)
         ELSE DefaultAirQuality,
         processEarthquakeData(earthquakeResult.value),
         IF weatherResult.status = "fulfilled"
         THEN processWeatherData(weatherResult.value)
         ELSE DefaultTemperatureData,
         random)

\* processCityVitals from the call of processWeatherData on: what that call
\* throws is thrown on
AssembledFromWeather(airQuality, disasterData, temperatureData, random) ==
  IF "thrown" \in DOMAIN temperatureData THEN temperatureData
  ELSE DiagnosedVitals(airQuality, disasterData, temperatureData, random)

\* processCityVitals from the call of processEarthquakeData on
AssembledFromDisaster(airQuality, disasterData, weatherResult, random) ==
  IF "thrown" \in DOMAIN disasterData THEN disasterData
  ELSE AssembledFromWeather(airQuality, disasterData,
         IF weatherResult.status = "fulfilled"
         THEN processWeatherData(weatherResult.value)
         ELSE DefaultTemperatureData,
         random)

\* processCityVitals from the call of processAirQualityData on
AssembledFromAirQuality(airQuality, earthquakeResult, weatherResult, random) ==
  IF "thrown" \in DOMAIN airQuality THEN airQuality
  ELSE AssembledFromDisaster(airQuality,
         IF earthquakeResult.status = "fulfilled"
         THEN processEarthquakeData(earthquakeResult.value)
         ELSE DefaultDisasterData,
         weatherResult, random)

\* returns the CityVitals; [thrown |-> message] stands for an exception
processCityVitals(location, airQualityResult, earthquakeResult, weatherResult, random) ==
  AssembledFromAirQuality(
    IF airQualityResult.status = "fulfilled"
    THEN processAirQualityData(airQualityResult.value)
    ELSE DefaultAirQuality,
    earthquakeResult, weatherResult, random)

(***************************************************************************)
(* MockDataService.generateMockVitals (services/mockDataService).  random  *)
(* holds the draws of Math.random(): factor for randomFactor, then one per *)
(* call of getRandomTrend.                                                 *)
(***************************************************************************)
Dec4(n) == FDec(n, 10000)

MOCK_LOCATIONS ==
  << [city |-> "Los Angeles", lat |-> Dec4(340522), lon |-> FNeg(Dec4(1182437))],
     [city |-> "New York",    lat |-> Dec4(407128), lon |-> FNeg(Dec4(740060))],
     [city |-> "London",      lat |-> Dec4(515074), lon |-> FNeg(Dec4(1278))],
     [city |-> "Tokyo",       lat |-> Dec4(356762), lon |-> Dec4(1396503)],
     [city |-> "Paris",       lat |-> Dec4(488566), lon |-> Dec4(23522)] >>

BaseVitals(heartRate, temperature, heatIsland10, airQuality, no2, pm25, o3, greenSpace, ndvi10, disasters, pollutionHotspots) ==
  [heartRate |-> FromInt(heartRate), temperature |-> FromInt(temperature),
   heatIslandEffect |-> FDec(heatIsland10, 10),
   airQuality |-> FromInt(airQuality),
   pollutants |-> [no2 |-> FromInt(no2), pm25 |-> FromInt(pm25),
                   o3 |-> FromInt(o3)],
   greenSpace |-> FromInt(greenSpace), ndvi |-> FDec(ndvi10, 10),
   disasters |-> FromInt(disasters),
   pollutionHotspots |-> FromInt(pollutionHotspots)]

getBaseVitalsForCity(cityName) ==
  CASE cityName = "New York" -> BaseVitals(85, 18, 42, 55, 35, 20, 40, 20, 5, 0, 5)
    [] cityName = "London"   -> BaseVitals(70, 15, 28, 35, 20, 12, 25, 35, 7, 0, 2)
    [] cityName = "Tokyo"    -> BaseVitals(90, 20, 51, 65, 45, 25, 50, 15, 4, 2, 4)
    [] cityName = "Paris"    -> BaseVitals(65, 16, 25, 30, 15, 10, 20, 40, 8, 0, 1)
    [] OTHER                 -> BaseVitals(75, 22, 35, 45, 25, 15, 35, 25, 6, 1, 3)

FAbs(a) == [a EXCEPT !.s = 1]

RECURSIVE CityNameFrom(_, _, _)
\* the loop over Object.entries(MOCK_LOCATIONS), from entry i on
CityNameFrom(location, entries, i) ==
  IF i > Len(entries) THEN "Los Angeles"
  ELSE IF /\ FLt(FAbs(FSub(location.lat, entries[i].lat)), FDec(1, 10))
          /\ FLt(FAbs(FSub(location.lon, entries[i].lon)), FDec(1, 10))
       THEN entries[i].city
       ELSE CityNameFrom(location, entries, i + 1)

getCityName(location) == CityNameFrom(location, MOCK_LOCATIONS, 1)

determineStatus(value, thresholds) ==
  IF FLe(value, thresholds[1]) THEN "normal"
  ELSE IF FLe(value, thresholds[2]) THEN "elevated"
  ELSE "critical"

MockTemperatureStatus(temperature) ==
  IF FGt(temperature, F35) THEN "critical"
  ELSE IF FGt(temperature, F30) THEN "fever"
  ELSE "normal"

determineGreenSpaceStatus(coverage) ==
  IF FGe(coverage, F30) THEN "strong"
  ELSE IF FGe(coverage, F15) THEN "weak"
  ELSE "compromised"

InfectionStatusOf(total) ==
  IF total = F0 THEN "clean"
  ELSE IF FLe(total, F3) THEN "infected"
  ELSE "critical"

determineInfectionStatus(disasters, pollution) ==
  InfectionStatusOf(FAdd(disasters, pollution))

\* trends[Math.floor(Math.random() * trends.length)]
getRandomTrend(draw) ==
  << "increasing", "stable", "decreasing" >>[MathFloor(FMul(draw, F3)) + 1]

\* Math.round(x)
Rounded(x) == FromInt(MathRound(x))

Max0(n) == IF n > 0 THEN n ELSE 0

\* generateMockVitals from const randomFactor on
MockVitalsOf(baseVitals, randomFactor, random) ==
  [heartRate |->
     HeartRate(Rounded(FMul(baseVitals.heartRate, FAdd(F1, randomFactor))),
               determineStatus(FMul(baseVitals.heartRate, FAdd(F1, randomFactor)),
                               << F60, FromInt(80), F100 >>),
               getRandomTrend(random.heartRate)),
   temperature |->
     Temperature(
       FDiv(Rounded(FMul(FAdd(baseVitals.temperature, FMul(randomFactor, F5)),
                         F10)), F10),
       FDiv(Rounded(FMul(FAdd(baseVitals.heatIslandEffect,
                              FMul(randomFactor, FromInt(2))), F10)), F10),
       MockTemperatureStatus(FAdd(baseVitals.temperature,
                                  FMul(randomFactor, F5))),
       getRandomTrend(random.temperature)),
   bloodOxygen |->
     BloodOxygen(
       Rounded(FMul(baseVitals.airQuality, FAdd(F1, randomFactor))),
       Rounded(FMul(baseVitals.pollutants.no2,
                    FAdd(F1, FMul(randomFactor, F0_5)))),
       Rounded(FMul(baseVitals.pollutants.pm25,
                    FAdd(F1, FMul(randomFactor, F0_5)))),
       Rounded(FMul(baseVitals.pollutants.o3,
                    FAdd(F1, FMul(randomFactor, F0_5)))),
       determineAirQualityStatus(FMul(baseVitals.airQuality,
                                      FAdd(F1, randomFactor))),
       getRandomTrend(random.bloodOxygen)),
   immuneSystem |->
     ImmuneSystem(
       Rounded(FMul(baseVitals.greenSpace, FAdd(F1, randomFactor))),
       FDiv(Rounded(FMul(FAdd(baseVitals.ndvi, FMul(randomFactor, F0_2)),
                         F100)), F100),
       determineGreenSpaceStatus(FMul(baseVitals.greenSpace,
                                      FAdd(F1, randomFactor))),
       getRandomTrend(random.immuneSystem)),
   infections |->
     Infections(
       FromInt(Max0(MathRound(FAdd(baseVitals.disasters,
                                   FMul(randomFactor, FromInt(2)))))),
       FromInt(Max0(MathRound(FAdd(baseVitals.pollutionHotspots,
                                   FMul(randomFactor, F1))))),
       determineInfectionStatus(
         FAdd(baseVitals.disasters, FMul(randomFactor, FromInt(2))),
         FAdd(baseVitals.pollutionHotspots, FMul(randomFactor, F1)))),
   overallHealth |-> PlaceholderHealth]

generateMockVitals(location, random) ==
  MockVitalsOf(getBaseVitalsForCity(getCityName(location)),
               FSub(FMul(random.factor, F0_3), F0_15), random)

(***************************************************************************)
(* DataValidator.validateLocation (services/dataValidator).  A location    *)
(* is [lat, lon, timestamp], the timestamp in days like now; a field that  *)
(* is no number is Null.                                                   *)
(***************************************************************************)
F90  == FromInt(90)
F180 == FromInt(180)

\* typeof v === 'number' && !isNaN(v), of a binary64 number
IsNumber(v) == DOMAIN v = {"s", "m", "e"}

\* typeof v === 'number' && !isNaN(v), of a number kept as an integer
IsInteger(v) ==
  SubSeq(ToString(v), 1, 1) \in
    {"-", "0", "1", "2", "3", "4", "5", "6", "7", "8", "9"}

\* Variant: the ends of the ranges refused, <= and >= for < and >
validateLocationOpenRange(location) ==
  LET latErrors ==
        IF ~IsNumber(location.lat)
        THEN << "Latitude must be a valid number" >>
        ELSE IF FLe(location.lat, FNeg(F90)) \/ FGe(location.lat, F90)
        THEN << "Latitude must be between -90 and 90 degrees" >> ELSE <<>>
      lonErrors ==
        IF ~IsNumber(location.lon)
        THEN << "Longitude must be a valid number" >>
        ELSE IF FLe(location.lon, FNeg(F180)) \/ FGe(location.lon, F180)
        THEN << "Longitude must be between -180 and 180 degrees" >> ELSE <<>>
      timeErrors ==
        IF ~IsInteger(location.timestamp)
        THEN << "Timestamp must be a valid number" >> ELSE <<>>
      warnings ==
        IF IsInteger(location.timestamp) /\ now - location.timestamp > 1
        THEN << "Location data is more than 24 hours old" >> ELSE <<>>
      errors == latErrors \o lonErrors \o timeErrors
  IN  [isValid |-> Len(errors) = 0, errors |-> errors, warnings |-> warnings,
       data |-> location]

validateLocation(location) ==
  LET latErrors ==
        IF ~IsNumber(location.lat)
        THEN << "Latitude must be a valid number" >>
        ELSE IF FLt(location.lat, FNeg(F90)) \/ FGt(location.lat, F90)
        THEN << "Latitude must be between -90 and 90 degrees" >> ELSE <<>>
      lonErrors ==
        IF ~IsNumber(location.lon)
        THEN << "Longitude must be a valid number" >>
        ELSE IF FLt(location.lon, FNeg(F180)) \/ FGt(location.lon, F180)
        THEN << "Longitude must be between -180 and 180 degrees" >> ELSE <<>>
      timeErrors ==
        IF ~IsInteger(location.timestamp)
        THEN << "Timestamp must be a valid number" >> ELSE <<>>
      warnings ==
        IF IsInteger(location.timestamp) /\ now - location.timestamp > 1
        THEN << "Location data is more than 24 hours old" >> ELSE <<>>
      errors == latErrors \o lonErrors \o timeErrors
  IN  [isValid |-> Len(errors) = 0, errors |-> errors, warnings |-> warnings,
       data |-> location]

RECURSIVE JoinFrom(_, _)
\* errors.join(', '), from error i on
JoinFrom(errors, i) ==
  IF i > Len(errors) THEN ""
  ELSE IF i = Len(errors) THEN errors[i]
  ELSE errors[i] \o ", " \o JoinFrom(errors, i + 1)

(***************************************************************************)
(* App: the query started by a click on the map.  The three fetches end    *)
(* fulfilled with a response of the upstream API or rejected; what the     *)
(* services' caches and the network do to bring that outcome about is not  *)
(* part of this specification.                                             *)
(***************************************************************************)
\* the places clicked: Paris, a place near no known city, and a place on a
\* wrapped copy of the world map, whose longitude is beyond 180
ClickPlaces ==
  { [lat |-> FDec(4886, 100), lon |-> FDec(235, 100)],
    [lat |-> F10, lon |-> FromInt(190)] }

Measurement(parameter, value) == [parameter |-> parameter, value |-> value]

AirQualityResponses ==
  { \* two stations: pm25 averages to 12 (AQI 50), no2 20, o3 40
    [results |->
       << [measurements |-> << Measurement("no2", F20), Measurement("pm25", FromInt(9)) >>],
          [measurements |-> << Measurement("pm25", F15), Measurement("o3", F40) >>] >>] }

Feature(time) == [properties |-> [time |-> time]]

\* three earthquakes, the oldest of them RecentDays before day 0
EarthquakeResponses ==
  { [features |-> << Feature(-RecentDays), Feature(-5), Feature(0) >>] }

WeatherResponses ==
  { [main |-> [temp |-> FromInt(42)]],
    [main |-> [temp |-> FDec(225, 10)]] }

\* the draws of Math.random() in processCityVitals
RandomDraws ==
  { [heartRate |-> FDec(9, 10), greenSpaceCoverage |-> FDec(5, 100),
     ndvi |-> F0_25],
    [heartRate |-> F0, greenSpaceCoverage |-> F0_5, ndvi |-> F0_8] }

\* the draws of Math.random() in generateMockVitals
MockDraws ==
  { [factor |-> F0_8, heartRate |-> F0_8, temperature |-> F0,
     bloodOxygen |-> F0_5, immuneSystem |-> F0_5] }

Pending      == [status |-> "pending"]
Fulfilled(v) == [status |-> "fulfilled", value |-> v]
Rejected(r)  == [status |-> "rejected", reason |-> r]

Init ==
  /\ InitApp
  /\ subject = Null
  /\ result = Null

callerVars == << subject, result >>

\* Variant: without the finally block, isLoading stays true after a throw
handleLocationSelectNoFinally(location) ==
  LET locationValidation == validateLocation(location) IN
  /\ selectedLocation' = location
  /\ isLoading' = TRUE
  /\ IF ~locationValidation.isValid
     THEN /\ error' = [message |-> "Invalid location data: "
                                     \o JoinFrom(locationValidation.errors, 1)]
          /\ pc' = "idle"
          /\ airQualityData' = Null
          /\ earthquakeData' = Null
          /\ weatherData' = Null
     ELSE /\ error' = Null
          /\ IF useMockData
             THEN /\ pc' = "awaitMockDelay"
                  /\ airQualityData' = Null
                  /\ earthquakeData' = Null
                  /\ weatherData' = Null
             ELSE /\ pc' = "awaitFetches"
                  /\ airQualityData' = Pending
                  /\ earthquakeData' = Pending
                  /\ weatherData' = Pending
  /\ UNCHANGED << vitals, useMockData, processedVitals, now, callerVars,
                  serviceVars >>

\* handleLocationSelect(location), up to its first await
handleLocationSelect(location) ==
  LET locationValidation == validateLocation(location) IN
  /\ selectedLocation' = location
  /\ IF ~locationValidation.isValid
     THEN \* thrown and caught before anything is fetched
          /\ error' = [message |-> "Invalid location data: "
                                     \o JoinFrom(locationValidation.errors, 1)]
          /\ isLoading' = FALSE
          /\ pc' = "idle"
          /\ airQualityData' = Null
          /\ earthquakeData' = Null
          /\ weatherData' = Null
     ELSE /\ error' = Null
          /\ isLoading' = TRUE
          /\ IF useMockData
             THEN /\ pc' = "awaitMockDelay"
                  /\ airQualityData' = Null
                  /\ earthquakeData' = Null
                  /\ weatherData' = Null
             ELSE /\ pc' = "awaitFetches"
                  /\ airQualityData' = Pending
                  /\ earthquakeData' = Pending
                  /\ weatherData' = Pending
  /\ UNCHANGED << vitals, useMockData, processedVitals, now, callerVars,
                  serviceVars >>

\* MapClickHandler: a click is ignored while a query is loading
MapClick ==
  /\ ~isLoading
  /\ \E place \in ClickPlaces :
       handleLocationSelect([lat |-> place.lat, lon |-> place.lon,
                             timestamp |-> now])

AirQualitySettles ==
  /\ pc = "awaitFetches"
  /\ airQualityData = Pending
  /\ \/ \E response \in AirQualityResponses :
          airQualityData' = Fulfilled(response)
     \/ airQualityData' =
          Rejected("Air quality API error: Network error: Unable to reach air quality service")
  /\ UNCHANGED << selectedLocation, vitals, isLoading, error, useMockData, pc,
                  earthquakeData, weatherData, processedVitals, now,
                  callerVars, serviceVars >>

EarthquakeSettles ==
  /\ pc = "awaitFetches"
  /\ earthquakeData = Pending
  /\ \/ \E response \in EarthquakeResponses :
          earthquakeData' = Fulfilled(response)
     \/ earthquakeData' =
          Rejected("Earthquake API error: Network error: Unable to reach earthquake service")
  /\ UNCHANGED << selectedLocation, vitals, isLoading, error, useMockData, pc,
                  airQualityData, weatherData, processedVitals, now,
                  callerVars, serviceVars >>

WeatherSettles ==
  /\ pc = "awaitFetches"
  /\ weatherData = Pending
  /\ \/ \E response \in WeatherResponses :
          weatherData' = Fulfilled(response)
     \/ weatherData' = Rejected("OpenWeatherMap API key not configured")
  /\ UNCHANGED << selectedLocation, vitals, isLoading, error, useMockData, pc,
                  airQualityData, earthquakeData, processedVitals, now,
                  callerVars, serviceVars >>

\* setVitals(processedVitals), or setError(err.message) when processCityVitals
\* has thrown
Settled(outcome) ==
  IF "thrown" \in DOMAIN outcome
  THEN /\ error' = [message |-> outcome.thrown]
       /\ vitals' = vitals
  ELSE /\ vitals' = outcome
       /\ error' = error

\* handleLocationSelect resumed by Promise.allSettled: it calls
\* processCityVitals, which runs to its end, and awaits the promise returned
AfterAllSettled ==
  /\ pc = "awaitFetches"
  /\ airQualityData # Pending
  /\ earthquakeData # Pending
  /\ weatherData # Pending
  /\ \E random \in RandomDraws :
       processedVitals' =
         processCityVitals(selectedLocation, airQualityData, earthquakeData,
                           weatherData, random)
  /\ pc' = "awaitProcessCityVitals"
  /\ UNCHANGED << selectedLocation, vitals, isLoading, error, useMockData,
                  airQualityData, earthquakeData, weatherData, now,
                  callerVars, serviceVars >>

\* handleLocationSelect resumed by the promise of processCityVitals, in the
\* next turn of the microtask queue; validateCityVitals and
\* generateQualityReport only write to the console
AfterProcessCityVitals ==
  /\ pc = "awaitProcessCityVitals"
  /\ Settled(processedVitals)
  /\ isLoading' = FALSE
  /\ pc' = "idle"
  /\ processedVitals' = Null
  /\ UNCHANGED << selectedLocation, useMockData, airQualityData,
                  earthquakeData, weatherData, now, callerVars, serviceVars >>

\* handleLocationSelect resumed by simulateAPIDelay
AfterMockDelay ==
  /\ pc = "awaitMockDelay"
  /\ \E random \in MockDraws :
       vitals' = generateMockVitals(selectedLocation, random)
  /\ isLoading' = FALSE
  /\ pc' = "idle"
  /\ UNCHANGED << selectedLocation, error, useMockData, airQualityData,
                  earthquakeData, weatherData, processedVitals, now,
                  callerVars, serviceVars >>

\* the Mock Data checkbox; an event handler does not run between two turns
\* of the microtask queue
ToggleMockData ==
  /\ pc # "awaitProcessCityVitals"
  /\ useMockData' = ~useMockData
  /\ UNCHANGED << selectedLocation, vitals, isLoading, error, pc,
                  airQualityData, earthquakeData, weatherData,
                  processedVitals, now, callerVars, serviceVars >>

Next ==
  \/ MapClick
  \/ AirQualitySettles
  \/ EarthquakeSettles
  \/ WeatherSettles
  \/ AfterAllSettled
  \/ AfterProcessCityVitals
  \/ AfterMockDelay
  \/ ToggleMockData
  \/ Tick

Spec == Init /\ [][Next]_vars

\* the step of AfterAllSettled, as the position of the function shows it
AllSettledResumes ==
  /\ pc = "awaitFetches"
  /\ airQualityData # Pending
  /\ earthquakeData # Pending
  /\ weatherData # Pending
  /\ pc' = "awaitProcessCityVitals"

\* the step of AfterProcessCityVitals, as the position shows it
ProcessCityVitalsResumes ==
  /\ pc = "awaitProcessCityVitals"
  /\ pc' = "idle"

\* the step of AfterMockDelay, as the position of the function shows it
MockDelayElapses ==
  /\ pc = "awaitMockDelay"
  /\ pc' = "idle"

\* App where every wait of handleLocationSelect ends: each of the three
\* fetches settles, Promise.allSettled and the promise of processCityVitals
\* resume the function, and the timer of simulateAPIDelay fires.  The three
\* resumptions are the only steps of Next that take pc out of a wait, and
\* each is enabled exactly in the states named here.  Clicks, the checkbox and the passing
\* of time are up to the user and under no fairness condition.
SpecLive ==
  /\ Spec
  /\ WF_vars(AirQualitySettles)
  /\ WF_vars(EarthquakeSettles)
  /\ WF_vars(WeatherSettles)
  /\ WF_pc(AllSettledResumes)
  /\ WF_pc(ProcessCityVitalsResumes)
  /\ WF_pc(MockDelayElapses)

(***************************************************************************)
(* Properties of the engine (SpecEngine).                                  *)
(***************************************************************************)
AirTriggered   == subject.bloodOxygen.status \in {"unhealthy", "hazardous"}
HeatTriggered  == subject.temperature.status \in {"fever", "critical"}
GreenTriggered == subject.immuneSystem.status \in {"weak", "compromised"}
DisasterTriggered == subject.infections.status \in {"infected", "critical"}
UrbanTriggered == subject.heartRate.status \in {"elevated", "critical"}

\* the triggered groups of subject, in the priority order of the specification
TriggeredGroups ==
  SelectSeq(<< [on |-> AirTriggered,      items |-> AirQualityRecs],
               [on |-> HeatTriggered,     items |-> HeatRecs],
               [on |-> GreenTriggered,    items |-> GreenSpaceRecs],
               [on |-> DisasterTriggered, items |-> DisasterRecs],
               [on |-> UrbanTriggered,    items |-> UrbanActivityRecs] >>,
            LAMBDA g : g.on)

Items(seq) == {seq[i] : i \in 1..Len(seq)}

\* C1: for every CityVitals, generateDiagnosis returns between 1 and 5
\* recommendations.
C1_RecommendationsLength ==
  result # Null =>
    /\ Len(result.recommendations) >= 1
    /\ Len(result.recommendations) <= 5

\* all five conditions trigger (15 items pushed) and 5 are returned
C1_Witness ==
  /\ result # Null
  /\ Len(TriggeredGroups) = 5
  /\ Len(result.recommendations) = 5

\* C2: the recommendations are the first 5 items of the triggered groups
\* concatenated in the order air quality, heat, green space, disaster, urban
\* activity: one triggered group gives its 3 items; two or more give the 3
\* items of the first followed by the first 2 of the second, and no item of
\* a third or later group.
C2_PriorityOrder ==
  (result # Null /\ Len(TriggeredGroups) >= 1) =>
    LET g == TriggeredGroups
        r == result.recommendations
    IN  /\ Len(g) = 1 => r = g[1].items
        /\ Len(g) >= 2 =>
             /\ r = g[1].items \o << g[2].items[1], g[2].items[2] >>
             /\ \A k \in 3..Len(g) : Items(g[k].items) \cap Items(r) = {}

\* air quality is not triggered, and three later groups are: heat, green
\* space and urban activity
C2_Witness ==
  /\ result # Null
  /\ ~AirTriggered /\ HeatTriggered /\ GreenTriggered /\ ~DisasterTriggered
  /\ UrbanTriggered
  /\ result.recommendations = HeatRecs \o << GreenSpaceRecs[1], GreenSpaceRecs[2] >>

\* C3: with all five statuses good the 3 generic recommendations are
\* returned exactly, whatever the readings and trends; with any condition
\* triggered no generic recommendation is returned.
C3_GenericFallback ==
  result # Null =>
    /\ Len(TriggeredGroups) = 0 => result.recommendations = GeneralRecs
    /\ Len(TriggeredGroups) > 0 =>
         Items(result.recommendations) \cap Items(GeneralRecs) = {}

\* all statuses good over bad readings: AQI 180, worsening
C3_Witness ==
  /\ result # Null
  /\ Len(TriggeredGroups) = 0
  /\ subject.bloodOxygen.value = FromInt(180)
  /\ subject.bloodOxygen.trend = "worsening"
  /\ result.recommendations = GeneralRecs

\* the weights in hundredths: 0.15, 0.20, 0.25, 0.25, 0.15, summing to 1.0
WeightHundredths == << 15, 20, 25, 25, 15 >>

\* The weighted sum of non-negative category scores, rounded to the nearest
\* integer with halves rounded up, in exact arithmetic: with the score i
\* equal to m_i * 2^(e_i) and k large enough for every e_i + k >= 0,
\* floor(sum / 100 + 1/2) = floor((2 N + D) / (2 D)) for
\* N = sum of w_i * m_i * 2^(e_i + k) and D = 100 * 2^k.
ExactRoundedScore(categoryScores) ==
  LET Lo(i, j) == IF i < j THEN i ELSE j
      minE == Lo(0, Lo(Lo(categoryScores[1].score.e, categoryScores[2].score.e),
                       Lo(Lo(categoryScores[3].score.e, categoryScores[4].score.e),
                          categoryScores[5].score.e)))
      k    == -minE
      T(i) == BMulLimb(BShl(categoryScores[i].score.m,
                            categoryScores[i].score.e + k),
                       WeightHundredths[i])
      N    == BAdd(BAdd(BAdd(BAdd(T(1), T(2)), T(3)), T(4)), T(5))
      D    == BShl(BFromNat(100), k)
  IN  BToNat(BDivMod(BAdd(BAdd(N, N), D), BAdd(D, D)).quot)

\* C4: overallScore is the sum of the five category scores weighted 0.15,
\* 0.20, 0.25, 0.25, 0.15, rounded to the nearest integer with halves
\* rounded up; it is an integer in 0..100, and 100 when all five category
\* scores are 100.
C4_RoundHalfUp ==
  result # Null =>
    /\ WeightHundredths[1] + WeightHundredths[2] + WeightHundredths[3]
         + WeightHundredths[4] + WeightHundredths[5] = 100
    /\ result.overallScore = ExactRoundedScore(result.categoryScores)
    /\ result.overallScore \in 0..100
    /\ (\A i \in 1..5 : result.categoryScores[i].score = F100)
         => result.overallScore = 100

\* the stressed city diagnosed: the category scores are 96, 13.5, 100, 11
\* and 11, their weighted sum is 46.5, and the overall score is 46
C4_Witness ==
  /\ result # Null
  /\ subject = StressedVitals
  /\ result.overallScore = 46
  /\ ExactRoundedScore(result.categoryScores) = 47

\* C5: each of the five category scores lies in [0, 100], for readings
\* outside the documented ranges too.
C5_ScoresInRange ==
  result # Null =>
    /\ Len(result.categoryScores) = 5
    /\ \A i \in 1..5 :
         /\ FGe(result.categoryScores[i].score, F0)
         /\ FLe(result.categoryScores[i].score, F100)

\* 2 * MaxHazards hazards under the status clean: 100 - 15 * 8 is negative
\* and the hazard score is clamped at 0
C5_Witness ==
  /\ result # Null
  /\ subject.infections =
       Infections(FromInt(MaxHazards), FromInt(MaxHazards), "clean")
  /\ result.categoryScores[5].score = F0

\* C6: in each scorer the additive adjustments are applied to the base
\* value first, the status factor second and the clamp to [0, 100] last:
\*   heartRate    = clamp((value +5 increasing, -5 decreasing)
\*                        x (0.5 critical, 0.8 elevated))
\*   temperature  = clamp((100 - 30/20/10 for value > 35/30/25
\*                        - 25/15/5 for heatIslandEffect > 5/3/1
\*                        - 10 increasing, +5 decreasing)
\*                        x (0.3 critical, 0.6 fever))
\*   bloodOxygen  = clamp((100 - AQI - 30/20/10 for mean pollutant > 50/30/15
\*                        - 15 worsening, +10 improving)
\*                        x (0.2 hazardous, 0.5 unhealthy))
\*   immuneSystem = clamp((coverage +20/+10 for NDVI > 0.7/0.5, -20 for
\*                        NDVI < 0.2, +10 improving, -15 declining)
\*                        x (0.4 compromised, 0.7 weak))
\*   infections   = clamp((100 - 15 x (disasterEvents + pollutionHotspots))
\*                        x (0.2 critical, 0.5 infected))
C6_AdditiveThenFactorThenClamp ==
  result # Null =>
    LET clamp(x) == IF FLt(x, F0) THEN F0 ELSE IF FGt(x, F100) THEN F100 ELSE x
        \* the adjustment selected by the first threshold the reading exceeds
        Steps(x, t1, a1, t2, a2, t3, a3) ==
          IF FGt(x, t1) THEN a1 ELSE IF FGt(x, t2) THEN a2
          ELSE IF FGt(x, t3) THEN a3 ELSE F0
        Pick(key, k1, v1, k2, v2, dflt) ==
          IF key = k1 THEN v1 ELSE IF key = k2 THEN v2 ELSE dflt
        h == subject.heartRate
        t == subject.temperature
        b == subject.bloodOxygen
        g == subject.immuneSystem
        i == subject.infections
        mean == FDiv(FAdd(FAdd(b.pollutants.no2, b.pollutants.pm25),
                          b.pollutants.o3), F3)
        heart ==
          clamp(FMul(FAdd(h.value,
                          Pick(h.trend, "increasing", F5,
                               "decreasing", FNeg(F5), F0)),
                     Pick(h.status, "critical", F0_5, "elevated", F0_8, F1)))
        temp ==
          clamp(FMul(FSub(FSub(FSub(F100,
                                    Steps(t.value, F35, F30, F30, F20, F25, F10)),
                               Steps(t.heatIslandEffect, F5, F25, F3, F15, F1, F5)),
                          Pick(t.trend, "increasing", F10,
                               "decreasing", FNeg(F5), F0)),
                     Pick(t.status, "critical", F0_3, "fever", F0_6, F1)))
        air ==
          clamp(FMul(FSub(FSub(FSub(F100, b.value),
                               Steps(mean, F50, F30, F30, F20, F15, F10)),
                          Pick(b.trend, "worsening", F15,
                               "improving", FNeg(F10), F0)),
                     Pick(b.status, "hazardous", F0_2, "unhealthy", F0_5, F1)))
        green ==
          clamp(FMul(FAdd(FAdd(g.greenSpaceCoverage,
                               IF FGt(g.ndvi, F0_7) THEN F20
                               ELSE IF FGt(g.ndvi, F0_5) THEN F10
                               ELSE IF FLt(g.ndvi, F0_2) THEN FNeg(F20) ELSE F0),
                          Pick(g.trend, "improving", F10,
                               "declining", FNeg(F15), F0)),
                     Pick(g.status, "compromised", F0_4, "weak", F0_7, F1)))
        hazards ==
          clamp(FMul(FSub(F100, FMul(F15, FAdd(i.disasterEvents,
                                               i.pollutionHotspots))),
                     Pick(i.status, "critical", F0_2, "infected", F0_5, F1)))
    IN  /\ result.categoryScores[1].score = heart
        /\ result.categoryScores[2].score = temp
        /\ result.categoryScores[3].score = air
        /\ result.categoryScores[4].score = green
        /\ result.categoryScores[5].score = hazards

\* a critical heart rate of 50, increasing: (50 + 5) x 0.5 = 27.5, where the
\* factor applied first would give 50 x 0.5 + 5 = 30
C6_Witness ==
  /\ result # Null
  /\ subject.heartRate = HeartRate(F50, "critical", "increasing")
  /\ result.categoryScores[1].score = FDec(275, 10)

\* C7: severity and diagnosis depend on overallScore alone.  Severity is
\* low for a score >= 75, medium for 60..74, high for 40..59, critical below
\* 40; the diagnosis is the template of the bands >= 90, >= 75, >= 60,
\* >= 40, else.  So severity is low exactly with one of the two top
\* templates, and critical exactly with the CRITICAL template.
C7_SeverityAndDiagnosisBands ==
  result # Null =>
    LET score == result.overallScore IN
    /\ result.severity = "low"      <=> score >= 75
    /\ result.severity = "medium"   <=> (score >= 60 /\ score <= 74)
    /\ result.severity = "high"     <=> (score >= 40 /\ score <= 59)
    /\ result.severity = "critical" <=> score < 40
    /\ result.diagnosis = DiagExcellent <=> score >= 90
    /\ result.diagnosis = DiagGood      <=> (score >= 75 /\ score < 90)
    /\ result.diagnosis = DiagFair      <=> (score >= 60 /\ score < 75)
    /\ result.diagnosis = DiagPoor      <=> (score >= 40 /\ score < 60)
    /\ result.diagnosis = DiagCritical  <=> score < 40
    /\ result.severity = "low" <=> result.diagnosis \in {DiagExcellent, DiagGood}
    /\ result.severity = "critical" <=> result.diagnosis = DiagCritical

\* a score of exactly 75, the lowest of the low band
C7_Witness ==
  /\ result # Null
  /\ result.overallScore = 75
  /\ result.severity = "low"
  /\ result.diagnosis = DiagGood

(***************************************************************************)
(* Properties of a query (Spec).                                           *)
(***************************************************************************)
VitalsFields ==
  {"heartRate", "temperature", "bloodOxygen", "immuneSystem", "infections",
   "overallHealth"}

\* the temperature sub-record made of a normalized weather reading
TemperatureOf(temperatureData) ==
  Temperature(temperatureData.temperature, temperatureData.heatIslandEffect,
              temperatureData.status, temperatureData.trend)

\* the bloodOxygen sub-record made of a normalized air-quality reading
BloodOxygenOf(airQuality) ==
  [value |-> airQuality.aqi, pollutants |-> airQuality.pollutants,
   status |-> airQuality.status, trend |-> airQuality.trend]

\* the infections sub-record made of a normalized earthquake reading
InfectionsOf(disasterData) ==
  Infections(disasterData.disasterEvents, disasterData.pollutionHotspots,
             disasterData.status)

\* a real-data query has completed and its three outcomes are still at hand
Assembled ==
  /\ pc = "idle"
  /\ airQualityData # Null
  /\ earthquakeData # Null
  /\ weatherData # Null

\* C9: when the earthquake fetch of a query is rejected and the air-quality
\* and weather fetches are fulfilled, the query still ends with a complete
\* CityVitals: all five sub-records and overallHealth are there, infections
\* is the default (0 events, 0 hotspots, clean), temperature and
\* bloodOxygen are normalized from the fulfilled responses, and
\* overallHealth.score is the engine's overall score over five categories,
\* the infections category scoring 100.
C9_EarthquakeRejectedStillComplete ==
  (/\ Assembled
   /\ airQualityData.status = "fulfilled"
   /\ earthquakeData.status = "rejected"
   /\ weatherData.status = "fulfilled") =>
    /\ vitals # Null
    /\ DOMAIN vitals = VitalsFields
    /\ vitals.infections = Infections(F0, F0, "clean")
    /\ vitals.temperature = TemperatureOf(processWeatherData(weatherData.value))
    /\ vitals.bloodOxygen =
         BloodOxygenOf(processAirQualityData(airQualityData.value))
    /\ LET diagnosis == generateDiagnosis(vitals) IN
         /\ vitals.overallHealth.score = diagnosis.overallScore
         /\ Len(diagnosis.categoryScores) = 5
         /\ diagnosis.categoryScores[5].category = "Environmental Hazards"
         /\ diagnosis.categoryScores[5].score = F100

\* the earthquake fetch was rejected; 42 degrees and an AQI of 50 were read
\* from the two fulfilled responses
C9_Witness ==
  /\ Assembled
  /\ airQualityData.status = "fulfilled"
  /\ earthquakeData.status = "rejected"
  /\ weatherData.status = "fulfilled"
  /\ error = Null
  /\ vitals # Null
  /\ vitals.temperature.value = FromInt(42)
  /\ vitals.temperature.status = "critical"
  /\ vitals.bloodOxygen.value = F50
  /\ vitals.infections.status = "clean"

\* the three sub-records that processCityVitals makes of three outcomes
SourcesAssembled(cityVitals) ==
  /\ cityVitals.bloodOxygen =
       IF airQualityData.status = "fulfilled"
       THEN BloodOxygenOf(processAirQualityData(airQualityData.value))
       ELSE BloodOxygen(F0, F0, F0, F0, "healthy", "stable")
  /\ cityVitals.infections =
       IF earthquakeData.status = "fulfilled"
       THEN InfectionsOf(processEarthquakeData(earthquakeData.value))
       ELSE Infections(F0, F0, "clean")
  /\ cityVitals.temperature =
       IF weatherData.status = "fulfilled"
       THEN TemperatureOf(processWeatherData(weatherData.value))
       ELSE Temperature(F20, F0, "normal", "stable")

\* C10: a real-data query starts its three fetches in one step; while the
\* query waits, a fetch that settles leaves the other two fetches and the
\* vitals as they are, and a settled outcome is kept; the vitals are
\* assembled in the step that ends the wait, when none of the three is
\* pending, and stored as assembled, with the error cleared, by the step
\* after it; for every combination of outcomes each fulfilled source is
\* normalized from its own response and each rejected source is replaced by
\* its default (AQI 0, healthy, stable; 0 events, clean; 20 C, normal,
\* stable).
C10_AllSettledThenAssembled ==
  /\ [][(pc # "awaitFetches" /\ pc' = "awaitFetches") =>
          /\ airQualityData' = Pending
          /\ earthquakeData' = Pending
          /\ weatherData' = Pending]_vars
  /\ [][(pc = "awaitFetches" /\ pc' = "awaitFetches") =>
          /\ vitals' = vitals
          /\ airQualityData # Pending => airQualityData' = airQualityData
          /\ earthquakeData # Pending => earthquakeData' = earthquakeData
          /\ weatherData # Pending => weatherData' = weatherData
          /\ Cardinality({i \in 1..3 :
               << airQualityData, earthquakeData, weatherData >>[i] #
               << airQualityData', earthquakeData', weatherData' >>[i]}) <= 1]_vars
  /\ [][(pc = "awaitFetches" /\ pc' # "awaitFetches") =>
          /\ Pending \notin {airQualityData, earthquakeData, weatherData}
          /\ << airQualityData', earthquakeData', weatherData' >> =
               << airQualityData, earthquakeData, weatherData >>
          /\ vitals' = vitals
          /\ processedVitals' # Null
          /\ SourcesAssembled(processedVitals')]_vars
  /\ [][(pc = "awaitProcessCityVitals" /\ pc' # pc) =>
          /\ << airQualityData', earthquakeData', weatherData' >> =
               << airQualityData, earthquakeData, weatherData >>
          /\ vitals' = processedVitals
          /\ error' = Null]_vars

\* one of the mixed combinations: the air-quality fetch rejected, the other
\* two fulfilled; the defaults of air quality beside 3 earthquakes and 22.5
\* degrees read from the responses
C10_Witness ==
  /\ Assembled
  /\ airQualityData.status = "rejected"
  /\ earthquakeData.status = "fulfilled"
  /\ weatherData.status = "fulfilled"
  /\ vitals # Null
  /\ vitals.bloodOxygen = BloodOxygen(F0, F0, F0, F0, "healthy", "stable")
  /\ vitals.infections = Infections(F3, F0, "critical")
  /\ vitals.temperature = Temperature(FDec(225, 10), F0_5, "normal", "stable")

\* the number of fetches of the completed query that were rejected
RejectedFetches ==
  Cardinality({i \in 1..3 :
    << airQualityData, earthquakeData, weatherData >>[i].status = "rejected"})

\* C11: when all three fetches of a query are rejected the query ends with
\* the error set; when one or two of them are rejected it ends with no error
\* and with vitals to display.
C11_ErrorOnlyWhenAllThreeFail ==
  Assembled =>
    /\ RejectedFetches = 3 => error # Null
    /\ RejectedFetches \in 1..2 => (error = Null /\ vitals # Null)

\* all three fetches rejected: the query has ended without an error, and the
\* vitals displayed are the three defaults
C11_Witness ==
  /\ Assembled
  /\ RejectedFetches = 3
  /\ error = Null
  /\ ~isLoading
  /\ vitals # Null
  /\ vitals.bloodOxygen = BloodOxygen(F0, F0, F0, F0, "healthy", "stable")
  /\ vitals.infections = Infections(F0, F0, "clean")
  /\ vitals.temperature = Temperature(F20, F0, "normal", "stable")

\* C12: no outcome of validation keeps a query from proceeding: every click
\* the map accepts starts the fetches (or the mock delay) with no error set,
\* and every wait ends with vitals set and no error.
C12_ValidationNeverBlocks ==
  /\ [][MapClick =>
          /\ isLoading'
          /\ error' = Null
          /\ pc' \in {"awaitFetches", "awaitMockDelay"}]_vars
  /\ [][(pc # "idle" /\ pc' = "idle") =>
          /\ vitals' # Null
          /\ error' = Null]_vars

\* a click at longitude 190 as the first query: validateLocation has
\* returned an error, the query has ended before any fetch, nothing is
\* displayed but the error
C12_Witness ==
  /\ selectedLocation # Null
  /\ ~validateLocation(selectedLocation).isValid
  /\ pc = "idle"
  /\ ~isLoading
  /\ vitals = Null
  /\ airQualityData = Null
  /\ error = [message |->
       "Invalid location data: Longitude must be between -180 and 180 degrees"]

(***************************************************************************)
(* The end of a real-data query whose fetches have settled (SpecAssemble): *)
(* handleLocationSelect resumed by Promise.allSettled with every           *)
(* combination of outcomes, among them responses that the upstream API     *)
(* has answered with status 200 and that lack a part of the documented     *)
(* shape.                                                                  *)
(***************************************************************************)
AirQualityOutcomes ==
  { Fulfilled([results |->
      << [measurements |-> << Measurement("pm25", F30), Measurement("no2", F20) >>] >>]),
    \* no results field
    Fulfilled([meta |-> [found |-> 0]]),
    \* the second station without its measurements array
    Fulfilled([results |->
      << [measurements |-> << Measurement("pm25", F30) >>],
         [location |-> "station"] >>]),
    Rejected("Air quality API error: HTTP 500: Unknown error") }

EarthquakeOutcomes ==
  { Fulfilled([features |-> << Feature(0), Feature(0) >>]),
    \* no features field
    Fulfilled([type |-> "FeatureCollection"]),
    \* the second feature without its properties
    Fulfilled([features |-> << Feature(0), [type |-> "Feature"] >>]),
    Rejected("Earthquake API error: HTTP 500: Unknown error") }

WeatherOutcomes ==
  { Fulfilled([main |-> [temp |-> FromInt(38)]]),
    \* no main field
    Fulfilled([cod |-> 200]),
    \* main without temp
    Fulfilled([main |-> [humidity |-> 40]]),
    Rejected("Weather API error: HTTP 500: Unknown error") }

InitAssemble ==
  /\ selectedLocation =
       [lat |-> FDec(4886, 100), lon |-> FDec(235, 100), timestamp |-> 0]
  /\ vitals = Null
  /\ isLoading = TRUE
  /\ error = Null
  /\ useMockData = FALSE
  /\ pc = "awaitFetches"
  /\ airQualityData \in AirQualityOutcomes
  /\ earthquakeData \in EarthquakeOutcomes
  /\ weatherData \in WeatherOutcomes
  /\ processedVitals = Null
  /\ now = 0
  /\ subject = Null
  /\ result = Null
  /\ ServicesAbstracted

NextAssemble == AfterAllSettled \/ AfterProcessCityVitals

SpecAssemble == InitAssemble /\ [][NextAssemble]_vars

\* a fulfilled air-quality response with a result without measurements
AirQualityIncomplete ==
  /\ airQualityData.status = "fulfilled"
  /\ "results" \in DOMAIN airQualityData.value
  /\ \E i \in 1..Len(airQualityData.value.results) :
       "measurements" \notin DOMAIN airQualityData.value.results[i]

\* a fulfilled earthquake response with a feature without properties
EarthquakeIncomplete ==
  /\ earthquakeData.status = "fulfilled"
  /\ "features" \in DOMAIN earthquakeData.value
  /\ \E i \in 1..Len(earthquakeData.value.features) :
       "properties" \notin DOMAIN earthquakeData.value.features[i]

\* a fulfilled weather response without main
WeatherIncomplete ==
  /\ weatherData.status = "fulfilled"
  /\ "main" \notin DOMAIN weatherData.value

\* C13: a query whose fetches are fulfilled with structurally incomplete
\* responses still ends with a complete CityVitals and no error, the
\* incomplete part at its default: AQI 0, healthy, stable for a result
\* without measurements; 0 events, clean for a feature without properties;
\* normal, stable for a weather response without main.
C13_IncompleteResponseDegrades ==
  Assembled =>
    /\ error = Null
    /\ vitals # Null
    /\ DOMAIN vitals = VitalsFields
    /\ AirQualityIncomplete =>
         vitals.bloodOxygen = BloodOxygen(F0, F0, F0, F0, "healthy", "stable")
    /\ EarthquakeIncomplete =>
         vitals.infections = Infections(F0, F0, "clean")
    /\ WeatherIncomplete =>
         /\ vitals.temperature.status = "normal"
         /\ vitals.temperature.trend = "stable"

\* the weather response has no main while the other two are well-formed:
\* processWeatherData has thrown a TypeError, which ends the query with the
\* error set and nothing to display
C13_Witness ==
  /\ Assembled
  /\ WeatherIncomplete
  /\ ~AirQualityIncomplete
  /\ ~EarthquakeIncomplete
  /\ airQualityData.status = "fulfilled"
  /\ earthquakeData.status = "fulfilled"
  /\ ~isLoading
  /\ vitals = Null
  /\ error = [message |-> "Cannot read properties of undefined (reading 'temp')"]

(***************************************************************************)
(* The three services (services/airQualityAPI, earthquakeAPI, weatherAPI): *)
(* fetchData with its cache and lastError, and handleError.  The service   *)
(* classes differ in their cache key prefix, TTL and messages, and the     *)
(* weather service needs an API key.  An axios error is a record: with     *)
(* response [status, data] when the server has answered with an error      *)
(* status, with request when no response was received, and with message.   *)
(***************************************************************************)
Services == {"airQuality", "earthquake", "weather"}

\* CACHE_TTL in minutes
CACHE_TTL == [airQuality |-> 5, earthquake |-> 10, weather |-> 10]

CacheKeyPrefix ==
  [airQuality |-> "air_quality", earthquake |-> "earthquakes",
   weather |-> "weather"]

ErrorPrefix ==
  [airQuality |-> "Air quality API error: ",
   earthquake |-> "Earthquake API error: ",
   weather    |-> "Weather API error: "]

NetworkError ==
  [airQuality |-> "Network error: Unable to reach air quality service",
   earthquake |-> "Network error: Unable to reach earthquake service",
   weather    |-> "Network error: Unable to reach weather service"]

\* `${prefix}_${lat}_${lon}`: the prefix and the two numbers, which the
\* string determines
CacheKey(service, lat, lon) == << CacheKeyPrefix[service], lat, lon >>

RECURSIVE NumberToString(_)
\* the decimal digits of a natural number, as a template literal writes it
NumberToString(n) ==
  IF n < 10 THEN SubSeq("0123456789", n + 1, n + 1)
  ELSE NumberToString(n \div 10) \o NumberToString(n % 10)

\* error.response.data?.message || 'Unknown error'
ResponseMessage(response) ==
  IF /\ "data" \in DOMAIN response
     /\ "message" \in DOMAIN response.data
     /\ response.data.message # ""
  THEN response.data.message
  ELSE "Unknown error"

\* Variant: a request error handed on as the bare message of axios
handleErrorBareMessage(service, err) ==
  IF "response" \in DOMAIN err
  THEN IF service = "weather" /\ err.response.status = 401
       THEN "Invalid API key for OpenWeatherMap"
       ELSE "HTTP " \o NumberToString(err.response.status) \o ": "
              \o ResponseMessage(err.response)
  ELSE IF "request" \in DOMAIN err THEN NetworkError[service]
  ELSE err.message

handleError(service, err) ==
  IF "response" \in DOMAIN err
  THEN IF service = "weather" /\ err.response.status = 401
       THEN "Invalid API key for OpenWeatherMap"
       ELSE "HTTP " \o NumberToString(err.response.status) \o ": "
              \o ResponseMessage(err.response)
  ELSE IF "request" \in DOMAIN err THEN NetworkError[service]
  ELSE "Request error: " \o err.message

\* this.cache.set(cacheKey, entry)
MapSet(map, key, entry) ==
  [k \in DOMAIN map \cup {key} |-> IF k = key THEN entry ELSE map[k]]

\* new Map()
EmptyMap == [k \in {} |-> Null]

\* the promise of a call that waits for axios.get
Requesting(cacheKey) == [status |-> "pending", cacheKey |-> cacheKey]

\* fetchData up to its first await: the promise it returns, and the number
\* of requests it has issued
Started(service, cacheKey) ==
  IF /\ cacheKey \in DOMAIN cache[service]
     /\ clock - cache[service][cacheKey].timestamp < cache[service][cacheKey].ttl
  THEN [promise  |-> Fulfilled(cache[service][cacheKey].data), requests |-> 0]
  ELSE IF service = "weather" /\ API_KEY = ""
  THEN [promise  |-> Rejected("OpenWeatherMap API key not configured"),
        requests |-> 0]
  ELSE [promise |-> Requesting(cacheKey), requests |-> 1]

\* this.cache.set(cacheKey, { data, timestamp: Date.now(), ttl })
CacheSet(service, cacheKey, data) ==
  [cache EXCEPT ![service] =
     MapSet(@, cacheKey,
            [data |-> data, timestamp |-> clock, ttl |-> CACHE_TTL[service]])]

\* Variant: the success path without this.lastError = null
RespondedKeepsError(service, data) ==
  /\ cache' = CacheSet(service, call[service].cacheKey, data)
  /\ lastError' = lastError
  /\ call' = [call EXCEPT ![service] = Fulfilled(data)]
  /\ requests' = requests

\* fetchData from const data = response.data on
Responded(service, data) ==
  /\ cache' = CacheSet(service, call[service].cacheKey, data)
  /\ lastError' = [lastError EXCEPT ![service] = Null]
  /\ call' = [call EXCEPT ![service] = Fulfilled(data)]
  /\ requests' = requests

\* Variant: the catch block sends the request once more before it gives up
CaughtRetried(service, message) ==
  /\ lastError' = [lastError EXCEPT ![service] = [message |-> message]]
  /\ IF requests[service] < 2
     THEN /\ requests' = [requests EXCEPT ![service] = @ + 1]
          /\ call' = call
     ELSE /\ requests' = requests
          /\ call' = [call EXCEPT ![service] =
               Rejected(ErrorPrefix[service] \o message)]
  /\ cache' = cache

\* the catch block of fetchData, message being this.handleError(error)
Caught(service, message) ==
  /\ lastError' = [lastError EXCEPT ![service] = [message |-> message]]
  /\ call' = [call EXCEPT ![service] =
       Rejected(ErrorPrefix[service] \o message)]
  /\ requests' = requests
  /\ cache' = cache

\* service.isHealthy()
isHealthy(service) ==
  /\ lastError[service] = Null
  /\ service = "weather" => API_KEY # ""

\* service.getLastError()
getLastError(service) == lastError[service]

(***************************************************************************)
(* The services at work (SpecFetch): calls of fetchData, one service at a  *)
(* time as the API tester makes them or all three at once as               *)
(* handleLocationSelect does, the answers of the network, and the caches   *)
(* cleared at any time.  These callers call a service again only when its  *)
(* latest call has settled.  No time passes: a cached response does not    *)
(* expire.                                                                 *)
(***************************************************************************)
FetchPlaces == { [lat |-> FDec(4886, 100), lon |-> FDec(235, 100)] }

\* a well-formed response of each upstream API
UpstreamResponse ==
  [airQuality |-> [results |->
     << [measurements |-> << Measurement("pm25", F30) >>] >>],
   earthquake |-> [features |-> << Feature(0) >>],
   weather    |-> [main |-> [temp |-> F20]]]

\* what axios.get throws: error statuses with and without a message in the
\* body, a timeout without response, and a failure before the request
AxiosErrors ==
  { [response |-> [status |-> 500, data |-> [message |-> "Internal error"]],
     message |-> "Request failed with status code 500"],
    [response |-> [status |-> 401, data |-> [cod |-> 401]],
     message |-> "Request failed with status code 401"],
    [request |-> TRUE, message |-> "timeout of 10000ms exceeded"],
    [message |-> "Invalid URL"] }

InitFetch ==
  /\ selectedLocation = Null
  /\ vitals = Null
  /\ isLoading = FALSE
  /\ error = Null
  /\ useMockData = FALSE
  /\ pc = "idle"
  /\ airQualityData = Null
  /\ earthquakeData = Null
  /\ weatherData = Null
  /\ processedVitals = Null
  /\ now = 0
  /\ subject = Null
  /\ result = Null
  /\ cache = [service \in Services |-> EmptyMap]
  /\ lastError = [service \in Services |-> Null]
  /\ call = [service \in Services |-> [status |-> "idle"]]
  /\ requests = [service \in Services |-> 0]
  /\ overtaken = [service \in Services |-> << >>]
  /\ clock = 0
  /\ API_KEY \in {"", "key"}
  /\ cacheManager = Null

\* of the calls of a service before its latest, those that wait at a time
MaxOvertaken == 1

\* the earlier calls as a new call of fetchData finds them: the latest call
\* joins them when it waits
Overtaken(service) ==
  overtaken[service]
    \o IF call[service].status = "pending" THEN << call[service] >> ELSE << >>

\* service.fetchData(lat, lon), up to its first await
fetchData(service, lat, lon) ==
  /\ Len(Overtaken(service)) <= MaxOvertaken
  /\ overtaken' = [overtaken EXCEPT ![service] = Overtaken(service)]
  /\ call' = [call EXCEPT ![service] =
       Started(service, CacheKey(service, lat, lon)).promise]
  /\ requests' = [requests EXCEPT ![service] =
       Started(service, CacheKey(service, lat, lon)).requests]
  /\ result' = Null
  /\ UNCHANGED << appVars, now, subject, cache, lastError,
                  clock, API_KEY, cacheManager >>

\* a test of the API tester: it awaits the call, and its buttons are
\* disabled while a test runs
FetchOne ==
  \E service \in Services, place \in FetchPlaces :
    /\ call[service].status # "pending"
    /\ fetchData(service, place.lat, place.lon)

\* the three calls of Promise.allSettled([...]) in handleLocationSelect,
\* which is not called while it waits for them (isLoading)
FetchAll ==
  /\ \A service \in Services : call[service].status # "pending"
  /\ overtaken' = overtaken
  /\ \E place \in FetchPlaces :
       /\ call' = [service \in Services |->
            Started(service, CacheKey(service, place.lat, place.lon)).promise]
       /\ requests' = [service \in Services |->
            Started(service, CacheKey(service, place.lat, place.lon)).requests]
  /\ result' = Null
  /\ UNCHANGED << appVars, now, subject, cache, lastError,
                  clock, API_KEY, cacheManager >>

\* service.clearCache(): this.cache.clear()
clearCache(service) ==
  /\ cache' = [cache EXCEPT ![service] = EmptyMap]
  /\ result' = Null
  /\ UNCHANGED << appVars, now, subject, lastError, call,
                  requests, overtaken, clock, API_KEY, cacheManager >>

\* a call of clearCache of one of the services
ClearOne == \E service \in DOMAIN call : clearCache(service)

\* APITester.clearAllCaches(), the Clear Cache button
clearAllCaches ==
  /\ cache' = [service \in DOMAIN cache |-> EmptyMap]
  /\ result' = Null
  /\ UNCHANGED << appVars, now, subject, lastError, call,
                  requests, overtaken, clock, API_KEY, cacheManager >>

\* axios.get resolves: the latest call of fetchData resumes after its await
AxiosResolves ==
  /\ \E service \in DOMAIN call :
       /\ call[service].status = "pending"
       /\ Responded(service, UpstreamResponse[service])
  /\ result' = Null
  /\ UNCHANGED << appVars, now, subject, overtaken, clock,
                  API_KEY, cacheManager >>

\* axios.get rejects: the latest call of fetchData resumes in its catch block
AxiosRejects ==
  /\ \E service \in DOMAIN call, err \in AxiosErrors :
       /\ call[service].status = "pending"
       /\ Caught(service, handleError(service, err))
  /\ result' = Null
  /\ UNCHANGED << appVars, now, subject, overtaken, clock,
                  API_KEY, cacheManager >>

\* the sequence without its i-th element
Remove(seq, i) == SubSeq(seq, 1, i - 1) \o SubSeq(seq, i + 1, Len(seq))

\* axios.get resolves for an earlier call: it stores the response under its
\* own cache key and clears lastError as the latest call would; result is
\* the promise that this step has settled, for the step after it only
OvertakenResolves ==
  /\ \E service \in DOMAIN call :
       \E i \in DOMAIN overtaken[service] :
         /\ cache' = CacheSet(service, overtaken[service][i].cacheKey,
                              UpstreamResponse[service])
         /\ lastError' = [lastError EXCEPT ![service] = Null]
         /\ overtaken' = [overtaken EXCEPT ![service] = Remove(@, i)]
         /\ result' = [service |-> service,
                       promise |-> Fulfilled(UpstreamResponse[service])]
  /\ UNCHANGED << appVars, now, subject, call, requests, clock,
                  API_KEY, cacheManager >>

\* axios.get rejects for an earlier call: its catch block
OvertakenRejects ==
  /\ \E service \in DOMAIN call, err \in AxiosErrors :
       \E i \in DOMAIN overtaken[service] :
         /\ lastError' = [lastError EXCEPT ![service] =
              [message |-> handleError(service, err)]]
         /\ overtaken' = [overtaken EXCEPT ![service] = Remove(@, i)]
         /\ result' =
              [service |-> service,
               promise |-> Rejected(ErrorPrefix[service]
                                      \o handleError(service, err))]
  /\ UNCHANGED << appVars, now, subject, cache, call, requests,
                  clock, API_KEY, cacheManager >>

NextFetch ==
  \/ FetchOne
  \/ FetchAll
  \/ AxiosResolves
  \/ AxiosRejects
  \/ ClearOne
  \/ clearAllCaches

SpecFetch == InitFetch /\ [][NextFetch]_vars

(***************************************************************************)
(* Properties of the services (SpecFetch).                                 *)
(***************************************************************************)
StartsWith(str, prefix) ==
  /\ Len(str) >= Len(prefix)
  /\ SubSeq(str, 1, Len(prefix)) = prefix

\* the three classified forms: HTTP <code>..., Network error..., and
\* Request error: <detail>
IsHttpForm(message) ==
  /\ StartsWith(message, "HTTP ")
  /\ Len(message) > 5
  /\ \E digit \in 0..9 : SubSeq(message, 6, 6) = NumberToString(digit)

IsNetworkForm(message) == StartsWith(message, "Network error")

IsRequestForm(message) == StartsWith(message, "Request error: ")

Classified(message) ==
  IsHttpForm(message) \/ IsNetworkForm(message) \/ IsRequestForm(message)

\* what follows the prefix of the service in the reason of a rejection
AfterPrefix(service, reason) ==
  SubSeq(reason, Len(ErrorPrefix[service]) + 1, Len(reason))

\* the reason is the prefix of the service followed by a classified message
PrefixedClassified(service, reason) ==
  /\ StartsWith(reason, ErrorPrefix[service])
  /\ Classified(AfterPrefix(service, reason))

\* handleError gives each kind of axios error its own form
FormFollowsCause(service, err) ==
  IF "response" \in DOMAIN err
  THEN \/ IsHttpForm(handleError(service, err))
       \/ /\ service = "weather"
          /\ err.response.status = 401
          /\ handleError(service, err) = "Invalid API key for OpenWeatherMap"
  ELSE IF "request" \in DOMAIN err
  THEN IsNetworkForm(handleError(service, err))
  ELSE IsRequestForm(handleError(service, err))

\* C14 as stated: every rejection of fetchData, of any of the three
\* services, carries the prefix of the service followed by a message of one
\* of the three classified forms.
C14_ThreeClassifiedForms ==
  \A service \in Services :
    call[service].status = "rejected" =>
      PrefixedClassified(service, call[service].reason)

\* C14, amended: every rejection of the air-quality and earthquake services
\* carries the prefix of the service followed by HTTP <code>... for an error
\* status, Network error... when no response was received, or Request
\* error: <detail> otherwise; the weather service has two forms more: the
\* message Invalid API key for OpenWeatherMap after its prefix for the
\* status 401, and OpenWeatherMap API key not configured, without prefix,
\* when no key is configured.
C14_ClassifiedOrApiKeyForms ==
  /\ \A service \in Services :
       call[service].status = "rejected" =>
         \/ PrefixedClassified(service, call[service].reason)
         \/ /\ service = "weather"
            /\ call[service].reason \in
                 { "OpenWeatherMap API key not configured",
                   "Weather API error: Invalid API key for OpenWeatherMap" }
  /\ \A service \in Services, err \in AxiosErrors :
       FormFollowsCause(service, err)

\* one rejection of each kind at once: an error status at the air-quality
\* service, a request that could not be sent at the earthquake service, and
\* no API key at the weather service
C14_Witness ==
  /\ call["airQuality"] =
       Rejected("Air quality API error: HTTP 500: Internal error")
  /\ call["earthquake"] =
       Rejected("Earthquake API error: Request error: Invalid URL")
  /\ call["weather"] = Rejected("OpenWeatherMap API key not configured")
  /\ lastError["weather"] = Null
  /\ requests["weather"] = 0

\* the requests issued by the latest calls of the three services together
RequestsTotal ==
  requests["airQuality"] + requests["earthquake"] + requests["weather"]

\* C15: a call of fetchData issues at most one request: a call that waits
\* has issued exactly one, and three calls, one of each service, have
\* issued at most three together; a request is issued only in the step in
\* which a call of fetchData begins, so that a rejection sends nothing and a
\* rejected call stays rejected, with its one request, until the service is
\* called again.
C15_OneRequestPerCallNoRetry ==
  /\ [](\A service \in Services :
          /\ requests[service] \in 0..1
          /\ call[service].status = "pending" => requests[service] = 1)
  /\ [](RequestsTotal <= 3)
  /\ [][\A service \in Services :
          requests'[service] > requests[service] =>
            /\ call[service].status # "pending"
            /\ call'[service].status = "pending"]_vars
  /\ [][\A service \in Services :
          (call[service].status = "pending" /\ call'[service].status # "pending") =>
            requests'[service] = requests[service]]_vars

\* the three calls of one query have each sent one request; the request of
\* the air-quality service has timed out and nothing is pending
C15_Witness ==
  /\ call["airQuality"] =
       Rejected("Air quality API error: Network error: Unable to reach air quality service")
  /\ lastError["airQuality"] =
       [message |-> "Network error: Unable to reach air quality service"]
  /\ call["earthquake"].status = "fulfilled"
  /\ call["weather"].status = "fulfilled"
  /\ RequestsTotal = 3
  /\ DOMAIN cache["airQuality"] = {}

(***************************************************************************)
(* A caller of the normalizers and of the validators (SpecPure): one call  *)
(* of one of the functions, at any time, on an argument drawn from the     *)
(* samples below.  The samples of a number hold the thresholds of the  *)
(* code, the binary64 numbers next to them, and numbers outside the        *)
(* documented ranges.                                                      *)
(***************************************************************************)
\* the distance from x # 0 to the next binary64 number of greater magnitude
Ulp(x) == [s |-> 1, m |-> BFromNat(1), e |-> BBitLen(x.m) + x.e - MantBits]

\* the binary64 numbers next to x, for an x > 0 that is no power of 2
JustAbove(x) == FAdd(x, Ulp(x))
JustBelow(x) == FSub(x, Ulp(x))

F400 == FromInt(400)

\* the PM2.5 values at which calculateAQI changes its formula
AQIBreakpoints == { F12, F35_4, F55_4, F150_4, F250_4 }

PM25Samples ==
  AQIBreakpoints
    \cup { JustBelow(b) : b \in AQIBreakpoints }
    \cup { JustAbove(b) : b \in AQIBreakpoints }
    \cup { F0, FDec(1, 1000), FromInt(6), F20, FromInt(45), F100, FromInt(200),
           FromInt(300), JustBelow(F400), F400, JustAbove(F400),
           FromInt(450), FromInt(1000), FromInt(1000000),
           FNeg(FDec(1, 1000)), FNeg(F5), FNeg(FromInt(1000)) }

\* a response of one station with one PM2.5 measurement
OneMeasurement(pm25) ==
  [results |-> << [measurements |-> << Measurement("pm25", pm25) >>] >>]

\* an earthquake of the given day and magnitude
Quake(time, mag) == [properties |-> [time |-> time, mag |-> mag]]

\* a great earthquake of 31 days before day 0, three lesser ones of 30
\* days, of 29 days and of no time before day 0, and one dated a day after
\* the last day of the caller's clock, as a clock behind that of the server
\* shows a new event
EarthquakeEvents ==
  { Quake(-RecentDays - 1, FromInt(8)), Quake(-RecentDays, F3),
    Quake(1 - RecentDays, F3), Quake(0, F3), Quake(MaxNow + 1, F3) }

MaxEvents == 3

\* the responses with up to MaxEvents events, in any order, and a response
\* without feature list
EarthquakeSamples ==
  { [features |-> features] :
      features \in UNION { [1..n -> EarthquakeEvents] : n \in 0..MaxEvents } }
    \cup { [type |-> "FeatureCollection"] }

\* the temperatures at which processWeatherData changes its answer
TemperatureThresholds == { F15, F20, F25, F30, F35, F40 }

TemperatureSamples ==
  TemperatureThresholds
    \cup { JustBelow(t) : t \in TemperatureThresholds }
    \cup { JustAbove(t) : t \in TemperatureThresholds }
    \cup { FDec(350001, 10000), FDec(400001, 10000), F0, FDec(225, 10),
           FNeg(F10), FNeg(FromInt(50)), FNeg(FromInt(60)), F50, F60,
           FromInt(70), FromInt(1000) }

LatitudeSamples ==
  { F0, F90, FNeg(F90), JustAbove(F90), FNeg(JustAbove(F90)), FromInt(91),
    FNeg(FromInt(91)), FromInt(200) }

LongitudeSamples ==
  { F0, F180, FNeg(F180), JustAbove(F180), FNeg(JustAbove(F180)),
    FromInt(181) }

\* locations stamped on day 0, one day and two days before, and locations
\* with a field that is no number
LocationSamples ==
  { [lat |-> lat, lon |-> lon, timestamp |-> - age] :
      lat \in LatitudeSamples, lon \in LongitudeSamples, age \in 0..2 }
    \cup { [lat |-> Null, lon |-> F0, timestamp |-> 0],
           [lat |-> F0, lon |-> Null, timestamp |-> 0] }

\* locations whose timestamp is no number
UnstampedSamples ==
  { [lat |-> F0, lon |-> F0, timestamp |-> Null],
    [lat |-> Null, lon |-> FromInt(181), timestamp |-> Null] }

(***************************************************************************)
(* DataValidator.validateCityVitals (services/dataValidator).  A number of *)
(* the model is a binary64 number that is not NaN; overallHealth.score is  *)
(* an integer of TLA+, as the engine computes it, or Null.                 *)
(***************************************************************************)
\* if (typeof v !== 'number' || isNaN(v)) errors.push(message)
ErrorUnlessNumber(v, message) == IF IsNumber(v) THEN << >> ELSE << message >>

\* else if (v < low || v > high) warnings.push(message)
WarningOutside(v, low, high, message) ==
  IF IsNumber(v) /\ (FLt(v, low) \/ FGt(v, high))
  THEN << message >> ELSE << >>

\* if (typeof v !== 'number' || v < 0) warnings.push(message)
WarningUnlessCount(v, message) ==
  IF ~IsNumber(v) \/ FLt(v, F0) THEN << message >> ELSE << >>

CityVitalsErrors(cityVitals) ==
  ErrorUnlessNumber(cityVitals.heartRate.value, "Invalid heart rate value")
    \o ErrorUnlessNumber(cityVitals.temperature.value, "Invalid temperature value")
    \o ErrorUnlessNumber(cityVitals.bloodOxygen.value, "Invalid air quality value")
    \o ErrorUnlessNumber(cityVitals.immuneSystem.greenSpaceCoverage,
                         "Invalid green space coverage value")
    \o ErrorUnlessNumber(cityVitals.immuneSystem.ndvi, "Invalid NDVI value")
    \o IF IsInteger(cityVitals.overallHealth.score) THEN << >>
       ELSE << "Invalid overall health score" >>

CityVitalsWarnings(cityVitals) ==
  WarningOutside(cityVitals.heartRate.value, F0, FromInt(200),
                 "Heart rate value seems unrealistic")
    \o WarningOutside(cityVitals.temperature.value, FNeg(F50), F60,
                      "Temperature value seems unrealistic")
    \o WarningOutside(cityVitals.bloodOxygen.value, F0, F500,
                      "Air quality value out of expected range")
    \o WarningUnlessCount(cityVitals.bloodOxygen.pollutants.no2,
                          "Invalid NO2 value")
    \o WarningUnlessCount(cityVitals.bloodOxygen.pollutants.pm25,
                          "Invalid PM2.5 value")
    \o WarningUnlessCount(cityVitals.bloodOxygen.pollutants.o3, "Invalid O3 value")
    \o WarningOutside(cityVitals.immuneSystem.greenSpaceCoverage, F0, F100,
                      "Green space coverage out of expected range (0-100%)")
    \o WarningOutside(cityVitals.immuneSystem.ndvi, FNeg(F1), F1,
                      "NDVI value out of expected range (-1 to 1)")
    \o WarningUnlessCount(cityVitals.infections.disasterEvents,
                          "Invalid disaster events count")
    \o WarningUnlessCount(cityVitals.infections.pollutionHotspots,
                          "Invalid pollution hotspots count")
    \o IF /\ IsInteger(cityVitals.overallHealth.score)
          /\ \/ cityVitals.overallHealth.score < 0
             \/ cityVitals.overallHealth.score > 100
       THEN << "Overall health score out of expected range (0-100)" >>
       ELSE << >>

\* return { isValid: errors.length === 0, errors, warnings, data }
ValidationResult(errors, warnings, data) ==
  [isValid |-> Len(errors) = 0, errors |-> errors, warnings |-> warnings,
   data |-> data]

\* Variant: the score tested with !score, which refuses a score of 0
validateCityVitalsFalsyScore(cityVitals) ==
  ValidationResult(
    CityVitalsErrors(cityVitals)
      \o IF /\ IsInteger(cityVitals.overallHealth.score)
            /\ cityVitals.overallHealth.score = 0
         THEN << "Invalid overall health score" >> ELSE << >>,
    CityVitalsWarnings(cityVitals), cityVitals)

validateCityVitals(cityVitals) ==
  ValidationResult(CityVitalsErrors(cityVitals), CityVitalsWarnings(cityVitals),
                   cityVitals)

\* the places of the mock cities, and a place that is near none of them
MockPlaces ==
  { [lat |-> MOCK_LOCATIONS[i].lat, lon |-> MOCK_LOCATIONS[i].lon,
     timestamp |-> 0] : i \in 1..Len(MOCK_LOCATIONS) }
    \cup { [lat |-> F0, lon |-> F0, timestamp |-> 0] }

\* draws of Math.random() for randomFactor, from 0 to just below 1
FactorDraws == { F0, F0_5, F0_8, FSub(F1, Ulp(F1)) }

\* what generateMockVitals returns for the places and the draws
MockVitalsSamples ==
  { generateMockVitals(place,
      [factor |-> factor, heartRate |-> F0_8, temperature |-> F0,
       bloodOxygen |-> F0_5, immuneSystem |-> F0_5]) :
      place \in MockPlaces, factor \in FactorDraws }

PureCalls ==
  { [function |-> "processAirQualityData", argument |-> OneMeasurement(pm25)] :
      pm25 \in PM25Samples }
    \cup { [function |-> "processEarthquakeData", argument |-> response] :
             response \in EarthquakeSamples }
    \cup { [function |-> "processWeatherData",
            argument |-> [main |-> [temp |-> temp]]] :
             temp \in TemperatureSamples }
    \cup { [function |-> "validateLocation", argument |-> location] :
             location \in LocationSamples }
    \cup { [function |-> "validateCityVitals", argument |-> mockVitals] :
             mockVitals \in MockVitalsSamples }

\* the function called on the argument
Applied(callee) ==
  CASE callee.function = "processAirQualityData" ->
         processAirQualityData(callee.argument)
    [] callee.function = "processEarthquakeData" ->
         processEarthquakeData(callee.argument)
    [] callee.function = "processWeatherData" ->
         processWeatherData(callee.argument)
    [] callee.function = "validateLocation" ->
         validateLocation(callee.argument)
    [] callee.function = "validateCityVitals" ->
         validateCityVitals(callee.argument)

InitPure ==
  /\ selectedLocation = Null
  /\ vitals = Null
  /\ isLoading = FALSE
  /\ error = Null
  /\ useMockData = FALSE
  /\ pc = "idle"
  /\ airQualityData = Null
  /\ earthquakeData = Null
  /\ weatherData = Null
  /\ processedVitals = Null
  /\ now \in 0..MaxNow
  /\ ServicesAbstracted
  /\ \/ subject \in PureCalls
     \/ \E location \in UnstampedSamples :
          subject = [function |-> "validateLocation", argument |-> location]
  /\ result = Null

\* const result = f(argument)
Apply ==
  /\ result = Null
  /\ result' = Applied(subject)
  /\ UNCHANGED << appVars, serviceVars, now, subject >>

SpecPure == InitPure /\ [][Apply]_vars

(***************************************************************************)
(* Properties of the normalizers and of validateLocation (SpecPure).       *)
(***************************************************************************)
\* the function has been called and has returned
Returned(function) ==
  /\ subject.function = function
  /\ result # Null

\* the PM2.5 value of the response passed to processAirQualityData
PM25Passed == subject.argument.results[1].measurements[1].value

\* C16: for PM2.5 >= 0 the AQI is 50, 100, 150, 250 and 350 at the
\* breakpoints 12, 35.4, 55.4, 150.4 and 250.4, and the AQI of the numbers
\* next below and next above a breakpoint is within a billionth of it; the
\* AQI of a smaller PM2.5 value is never greater; the AQI is 500 from 400 on
\* and never more than 500.
C16_AQIContinuousAndMonotone ==
  (Returned("processAirQualityData") /\ FGe(PM25Passed, F0)) =>
    /\ result.aqi = calculateAQI([no2 |-> F0, pm25 |-> PM25Passed, o3 |-> F0])
    /\ PM25Passed = F12 => result.aqi = F50
    /\ PM25Passed = F35_4 => result.aqi = F100
    /\ PM25Passed = F55_4 => result.aqi = F150
    /\ PM25Passed = F150_4 => result.aqi = F250
    /\ PM25Passed = F250_4 => result.aqi = F350
    /\ PM25Passed \in AQIBreakpoints =>
         /\ FLe(FAbs(FSub(result.aqi, AQIOf(JustBelow(PM25Passed)))),
                FDec(1, 1000000000))
         /\ FLe(FAbs(FSub(AQIOf(JustAbove(PM25Passed)), result.aqi)),
                FDec(1, 1000000000))
    /\ \A smaller \in PM25Samples :
         (FGe(smaller, F0) /\ FLe(smaller, PM25Passed)) =>
           FLe(AQIOf(smaller), result.aqi)
    /\ FLe(result.aqi, F500)
    /\ FGe(PM25Passed, F400) => result.aqi = F500

\* the AQI of a PM2.5 average of 150.4, the end of the fourth segment: 250
C16_Witness ==
  /\ Returned("processAirQualityData")
  /\ PM25Passed = F150_4
  /\ result.aqi = F250
  /\ result.status = "hazardous"
  /\ AQIOf(JustAbove(F150_4)) # F250

\* the feature list of the response passed to processEarthquakeData
FeaturesPassed ==
  IF "features" \in DOMAIN subject.argument THEN subject.argument.features
  ELSE <<>>

\* the events passed whose time lies within the last RecentDays days of now
RecentPassed ==
  Cardinality({ i \in 1..Len(FeaturesPassed) :
                  now - FeaturesPassed[i].properties.time \in 0..RecentDays })

\* C17: disasterEvents is the number of events of the response whose time
\* lies within the last 30 days of the time of the call, whatever the
\* magnitudes;
\* pollutionHotspots is 0; the status is clean for 0 events, infected for 1
\* or 2 and critical for 3 or more; a response with an empty feature list
\* or without one gives 0, 0, clean.
C17_RecentEventsCounted ==
  Returned("processEarthquakeData") =>
    /\ result.disasterEvents = FromInt(RecentPassed)
    /\ result.pollutionHotspots = F0
    /\ result.status = IF RecentPassed = 0 THEN "clean"
                       ELSE IF RecentPassed <= 2 THEN "infected"
                       ELSE "critical"
    /\ Len(FeaturesPassed) = 0 =>
         result = [disasterEvents |-> F0, pollutionHotspots |-> F0,
                   status |-> "clean"]

\* one event passed on day 0, dated two days later: none lies within the
\* last 30 days, and it is counted
C17_Witness ==
  /\ Returned("processEarthquakeData")
  /\ now = 0
  /\ FeaturesPassed = << Quake(MaxNow + 1, F3) >>
  /\ RecentPassed = 0
  /\ result = [disasterEvents |-> FromInt(1), pollutionHotspots |-> F0,
               status |-> "infected"]

\* main.temp of the response passed to processWeatherData
TempPassed == subject.argument.main.temp

\* C18: the status is critical for temp > 40, fever for 35 < temp <= 40 and
\* normal for temp <= 35, so that exactly 40 is fever and exactly 35 is
\* normal while the next number above each is critical and fever;
\* heatIslandEffect is 5, 3, 1.5, 0.5 and 0 for temp > 35, > 30, > 25, > 20
\* and otherwise; the trend is increasing for temp > 30, decreasing for
\* temp < 15 and stable in between, 30 and 15 included.
C18_StrictTemperatureThresholds ==
  Returned("processWeatherData") =>
    /\ result.status = "critical" <=> FCmp(TempPassed, F40) = 1
    /\ result.status = "fever" <=>
         (FCmp(TempPassed, F35) = 1 /\ FCmp(TempPassed, F40) <= 0)
    /\ result.status = "normal" <=> FCmp(TempPassed, F35) <= 0
    /\ TempPassed = F40 => result.status = "fever"
    /\ TempPassed = F35 => result.status = "normal"
    /\ TempPassed \in { JustAbove(F40), FDec(400001, 10000) } =>
         result.status = "critical"
    /\ TempPassed \in { JustAbove(F35), FDec(350001, 10000) } =>
         result.status = "fever"
    /\ result.heatIslandEffect =
         IF FCmp(TempPassed, F35) = 1 THEN F5
         ELSE IF FCmp(TempPassed, F30) = 1 THEN F3
         ELSE IF FCmp(TempPassed, F25) = 1 THEN FDec(15, 10)
         ELSE IF FCmp(TempPassed, F20) = 1 THEN FDec(5, 10)
         ELSE F0
    /\ result.trend =
         IF FCmp(TempPassed, F30) = 1 THEN "increasing"
         ELSE IF FCmp(TempPassed, F15) = -1 THEN "decreasing"
         ELSE "stable"

\* exactly 40 degrees: fever, not critical, with the greatest heat island
\* effect and an increasing trend
C18_Witness ==
  /\ Returned("processWeatherData")
  /\ TempPassed = F40
  /\ result = [temperature |-> F40, heatIslandEffect |-> F5,
               status |-> "fever", trend |-> "increasing"]

\* the list holds the message
Has(messages, message) ==
  \E i \in 1..Len(messages) : messages[i] = message

\* the three fields of the location are numbers
AllNumbers(location) ==
  /\ IsNumber(location.lat)
  /\ IsNumber(location.lon)
  /\ IsInteger(location.timestamp)

LatitudeInRange(lat) == FCmp(lat, FNeg(F90)) >= 0 /\ FCmp(lat, F90) <= 0

LongitudeInRange(lon) == FCmp(lon, FNeg(F180)) >= 0 /\ FCmp(lon, F180) <= 0

\* C19: validateLocation returns isValid = true exactly when its errors
\* list is empty; the list holds the latitude error exactly when the
\* latitude is outside [-90, 90] (90 and -90 give none; 91 and 200 give it,
\* with isValid = false), and the longitude error exactly when the
\* longitude is outside [-180, 180]; a timestamp more than 24 hours old
\* gives the warning and nothing else: isValid is true whenever latitude
\* and longitude are in range.
C19_ClosedRangesAndStaleWarning ==
  Returned("validateLocation") =>
    /\ result.isValid <=> Len(result.errors) = 0
    /\ Has(result.errors, "Latitude must be between -90 and 90 degrees") <=>
         /\ IsNumber(subject.argument.lat)
         /\ ~LatitudeInRange(subject.argument.lat)
    /\ Has(result.errors, "Longitude must be between -180 and 180 degrees") <=>
         /\ IsNumber(subject.argument.lon)
         /\ ~LongitudeInRange(subject.argument.lon)
    /\ subject.argument.lat \in {F90, FNeg(F90)} =>
         ~Has(result.errors, "Latitude must be between -90 and 90 degrees")
    /\ subject.argument.lat \in {FromInt(91), FromInt(200)} =>
         /\ Has(result.errors, "Latitude must be between -90 and 90 degrees")
         /\ ~result.isValid
    /\ AllNumbers(subject.argument) =>
         /\ result.isValid <=>
              /\ LatitudeInRange(subject.argument.lat)
              /\ LongitudeInRange(subject.argument.lon)
         /\ Has(result.warnings, "Location data is more than 24 hours old")
              <=> now - subject.argument.timestamp > 1
         /\ Len(result.errors) <= 2
    /\ ~AllNumbers(subject.argument) => ~result.isValid
    /\ Len(result.warnings) <= 1
    /\ Len(result.errors) <= 3

\* latitude 90 and longitude -180, stamped two days ago: valid, no error,
\* and the warning
C19_Witness ==
  /\ Returned("validateLocation")
  /\ subject.argument.lat = F90
  /\ subject.argument.lon = FNeg(F180)
  /\ now - subject.argument.timestamp = 2
  /\ result.isValid
  /\ result.errors = <<>>
  /\ result.warnings = << "Location data is more than 24 hours old" >>

\* C20: the value of a normalized metric lies in the range of its domain
\* whatever the upstream datum: the AQI that processAirQualityData returns
\* is in [0, 500] for every PM2.5 average, and the temperature that
\* processWeatherData returns is in [-50, 60] for every main.temp.
C20_NormalizedValuesInRange ==
  /\ Returned("processAirQualityData") =>
       /\ FCmp(result.aqi, F0) >= 0
       /\ FCmp(result.aqi, F500) <= 0
  /\ Returned("processWeatherData") =>
       /\ FCmp(result.temperature, FNeg(F50)) >= 0
       /\ FCmp(result.temperature, F60) <= 0

\* a main.temp of 70 degrees is returned as it is, as a critical
\* temperature of 70
C20_Witness ==
  /\ Returned("processWeatherData")
  /\ TempPassed = FromInt(70)
  /\ result.temperature = FromInt(70)
  /\ result.status = "critical"

(***************************************************************************)
(* One service over time (SpecService): a single instance of one of the    *)
(* three service classes, called for two places while the clock advances   *)
(* minute by minute, so that cached responses expire.                      *)
(***************************************************************************)
MaxClock == 10

ServicePlaces ==
  { [lat |-> FDec(4886, 100), lon |-> FDec(235, 100)],
    [lat |-> FDec(4071, 100), lon |-> FDec(-7401, 100)] }

\* new AirQualityService(), new EarthquakeService() or new WeatherService()
InitService ==
  /\ selectedLocation = Null
  /\ vitals = Null
  /\ isLoading = FALSE
  /\ error = Null
  /\ useMockData = FALSE
  /\ pc = "idle"
  /\ airQualityData = Null
  /\ earthquakeData = Null
  /\ weatherData = Null
  /\ processedVitals = Null
  /\ now = 0
  /\ subject = Null
  /\ result = Null
  /\ \E service \in Services :
       /\ cache = [s \in {service} |-> EmptyMap]
       /\ lastError = [s \in {service} |-> Null]
       /\ call = [s \in {service} |-> [status |-> "idle"]]
       /\ requests = [s \in {service} |-> 0]
       /\ overtaken = [s \in {service} |-> << >>]
  /\ clock = 0
  /\ API_KEY = "key"
  /\ cacheManager = Null

\* a call of the instance's fetchData for one of the places
FetchAt ==
  \E service \in DOMAIN call, place \in ServicePlaces :
    fetchData(service, place.lat, place.lon)

\* a minute passes: Date.now() grows by 60000
Elapse ==
  /\ clock < MaxClock
  /\ clock' = clock + 1
  /\ result' = Null
  /\ UNCHANGED << appVars, now, subject, cache, lastError,
                  call, requests, overtaken, API_KEY, cacheManager >>

NextService ==
  \/ FetchAt
  \/ AxiosResolves
  \/ AxiosRejects
  \/ OvertakenResolves
  \/ OvertakenRejects
  \/ ClearOne
  \/ Elapse

SpecService == InitService /\ [][NextService]_vars

(***************************************************************************)
(* Properties of a service over time (SpecService).                        *)
(***************************************************************************)
\* the TTL of the claim, in minutes
FiveMinutes == 5

\* this step is a call of fetchData that sends a request and waits
BeginsRequest(service) ==
  /\ call'[service].status = "pending"
  /\ \/ call[service].status # "pending"
     \/ Len(overtaken'[service]) > Len(overtaken[service])

\* this step is a call of fetchData answered from the cache: the call
\* before it has issued a request, this one settles at once without one
AnsweredFromCache(service) ==
  /\ call[service].status # "pending"
  /\ requests[service] = 1
  /\ requests'[service] = 0
  /\ call'[service].status = "fulfilled"

\* C21: each of the three services caches with a TTL of 5 minutes: a call
\* of fetchData waits for a request for coordinates it has stored only when
\* 5 minutes or more have passed since it stored them, and a call is
\* answered from the cache only with a response stored less than 5 minutes
\* before.
C21_FiveMinuteTTL ==
  /\ [][\A service \in DOMAIN call :
          (/\ BeginsRequest(service)
           /\ call'[service].cacheKey \in DOMAIN cache[service]) =>
            clock - cache[service][call'[service].cacheKey].timestamp
              >= FiveMinutes]_vars
  /\ [][\A service \in DOMAIN call :
          AnsweredFromCache(service) =>
            \E key \in DOMAIN cache[service] :
              /\ cache[service][key].data = call'[service].value
              /\ clock - cache[service][key].timestamp < FiveMinutes]_vars

\* the earthquake service has stored a response at minute 0 and, 5 minutes
\* later, has answered a call without a request
C21_Witness ==
  /\ DOMAIN call = {"earthquake"}
  /\ clock = FiveMinutes
  /\ \E key \in DOMAIN cache["earthquake"] :
       /\ DOMAIN cache["earthquake"] = {key}
       /\ cache["earthquake"][key].timestamp = 0
  /\ call["earthquake"].status = "fulfilled"
  /\ requests["earthquake"] = 0

(***************************************************************************)
(* CacheManager (services/cacheManager).  this.cache is a Map: the model   *)
(* keeps its entries in insertion order, each with its key, because        *)
(* evictOldest iterates them in that order.  An optional argument is the   *)
(* list of what was passed: << >> when it was omitted.  Of this.stats the  *)
(* model keeps the three counters that get and clear change.               *)
(***************************************************************************)
\* this.cache.has(key)
Stored(entries, key) == \E i \in 1..Len(entries) : entries[i].key = key

\* this.cache.get(key), for a key that is stored
EntryOf(entries, key) ==
  entries[CHOOSE i \in 1..Len(entries) : entries[i].key = key]

\* this.cache.delete(key)
Without(entries, key) == SelectSeq(entries, LAMBDA entry : entry.key # key)

\* this.cache.set(key, entry): a key that is stored keeps its place
With(entries, entry) ==
  IF Stored(entries, entry.key)
  THEN [i \in 1..Len(entries) |->
          IF entries[i].key = entry.key THEN entry ELSE entries[i]]
  ELSE Append(entries, entry)

\* Date.now() - entry.timestamp > entry.ttl
Expired(entry, t) == t - entry.timestamp > entry.ttl

RECURSIVE OldestKey(_, _, _, _)
\* the loop of evictOldest from the i-th entry on
OldestKey(entries, i, oldestKey, oldestTime) ==
  IF i > Len(entries) THEN oldestKey
  ELSE IF entries[i].timestamp < oldestTime
  THEN OldestKey(entries, i + 1, entries[i].key, entries[i].timestamp)
  ELSE OldestKey(entries, i + 1, oldestKey, oldestTime)

\* if (oldestKey) this.cache.delete(oldestKey): '' is falsy
evictOldest(entries, t) ==
  IF OldestKey(entries, 1, "", t) # ""
  THEN Without(entries, OldestKey(entries, 1, "", t))
  ELSE entries

\* ttl || this.config.defaultTTL
EntryTTL(manager, ttl) ==
  IF ttl = << >> \/ ttl = << 0 >> THEN manager.config.defaultTTL ELSE ttl[1]

set(manager, key, data, ttl, t) ==
  [manager EXCEPT !.cache =
     With(IF Len(manager.cache) >= manager.config.maxSize
          THEN evictOldest(manager.cache, t)
          ELSE manager.cache,
          [key |-> key, data |-> data, timestamp |-> t,
           ttl |-> EntryTTL(manager, ttl)])]

\* this.stats.misses++; this.stats.totalRequests++
Missed(manager) ==
  [manager EXCEPT !.stats.misses = @ + 1, !.stats.totalRequests = @ + 1]

\* Variant: an entry is returned whatever its age
getIgnoringAge(manager, key, t) ==
  IF ~Stored(manager.cache, key)
  THEN [value |-> Null, manager |-> Missed(manager)]
  ELSE [value   |-> EntryOf(manager.cache, key).data,
        manager |-> [manager EXCEPT !.stats.hits = @ + 1,
                                    !.stats.totalRequests = @ + 1]]

\* get(key): what it returns and what it leaves of the manager
get(manager, key, t) ==
  IF ~Stored(manager.cache, key)
  THEN [value |-> Null, manager |-> Missed(manager)]
  ELSE IF Expired(EntryOf(manager.cache, key), t)
  THEN [value   |-> Null,
        manager |-> Missed([manager EXCEPT !.cache = Without(@, key)])]
  ELSE [value   |-> EntryOf(manager.cache, key).data,
        manager |-> [manager EXCEPT !.stats.hits = @ + 1,
                                    !.stats.totalRequests = @ + 1]]

has(manager, key, t) ==
  IF ~Stored(manager.cache, key)
  THEN [value |-> FALSE, manager |-> manager]
  ELSE IF Expired(EntryOf(manager.cache, key), t)
  THEN [value   |-> FALSE,
        manager |-> [manager EXCEPT !.cache = Without(@, key)]]
  ELSE [value |-> TRUE, manager |-> manager]

delete(manager, key) ==
  [value   |-> Stored(manager.cache, key),
   manager |-> [manager EXCEPT !.cache = Without(@, key)]]

\* resetStats
NoStats == [hits |-> 0, misses |-> 0, totalRequests |-> 0]

clear(manager) == [manager EXCEPT !.cache = << >>, !.stats = NoStats]

\* cleanup, which the timer of startCleanupTimer calls
cleanup(manager, t) ==
  [manager EXCEPT !.cache = SelectSeq(@, LAMBDA entry : ~Expired(entry, t))]

RECURSIVE batchGet(_, _, _)
\* keys.forEach(key => results.set(key, this.get(key))): the Map returned,
\* a later get of a key replacing an earlier one, and what the gets leave
\* of the manager
batchGet(manager, keys, t) ==
  IF Len(keys) = 0 THEN [value |-> << >>, manager |-> manager]
  ELSE LET first == get(manager, Head(keys), t)
           rest  == batchGet(first.manager, Tail(keys), t)
       IN  [value   |-> rest.value @@ (Head(keys) :> first.value),
            manager |-> rest.manager]

RECURSIVE batchSet(_, _, _)
\* entries.forEach(({ key, data, ttl }) => this.set(key, data, ttl))
batchSet(manager, entries, t) ==
  IF Len(entries) = 0 THEN manager
  ELSE batchSet(set(manager, Head(entries).key, Head(entries).data,
                    Head(entries).ttl, t),
                Tail(entries), t)

preload(manager, key, data, ttl, t) == set(manager, key, data, ttl, t)

\* this.config = { ...this.config, ...newConfig }
updateConfig(manager, newConfig) ==
  [manager EXCEPT !.config =
     [field \in DOMAIN @ |->
        IF field \in DOMAIN newConfig THEN newConfig[field] ELSE @[field]]]

(***************************************************************************)
(* A client of a CacheManager (SpecManager): it constructs the manager     *)
(* with a small configuration, calls its operations in any order while     *)
(* time passes, and keeps in subject what it has last set under each key   *)
(* and not deleted or cleared since, and in result what the latest         *)
(* operation has returned: undefined from an operation that returns        *)
(* nothing, and with its keys what get or batchGet has returned.  The      *)
(* timer may run cleanup at any time.                                      *)
(***************************************************************************)
ConfiguredMaxSize == 2

ConfiguredTTL == 2

MaxTime == 2

MaxGets == 2

Keys == {"", "a", "b"}

\* what a call of set passes: every key without ttl, and under one of the
\* keys other data, or a ttl
SetArguments ==
  [key : Keys, data : {[test |-> "data"]}, ttl : {<< >>}]
    \cup { [key |-> "a", data |-> [test |-> "other"], ttl |-> << >>],
           [key |-> "a", data |-> [test |-> "data"], ttl |-> << 1 >>] }

\* what a call of preload passes: a ttl of 0
PreloadArguments == [key : Keys, data : {[test |-> "data"]}, ttl : {<< 0 >>}]

\* an entry of a batch, without ttl
BatchEntry(key) == [key |-> key, data |-> [test |-> "data"], ttl |-> << >>]

\* the entries a call of batchSet passes: two keys, one key twice, and the
\* three keys
Batches ==
  { << BatchEntry("a"), BatchEntry("b") >>,
    << BatchEntry("b"), BatchEntry("b") >>,
    << BatchEntry(""), BatchEntry("a"), BatchEntry("b") >> }

\* the keys a call of batchGet passes: two keys, and one key twice
KeyBatches == { << "a", "b" >>, << "a", "a" >> }

\* what a call of updateConfig passes: room for one entry more
NewConfigs == { [maxSize |-> ConfiguredMaxSize + 1] }

\* new CacheManager({ defaultTTL: ..., maxSize: ... })
InitManager ==
  /\ selectedLocation = Null
  /\ vitals = Null
  /\ isLoading = FALSE
  /\ error = Null
  /\ useMockData = FALSE
  /\ pc = "idle"
  /\ airQualityData = Null
  /\ earthquakeData = Null
  /\ weatherData = Null
  /\ processedVitals = Null
  /\ now = 0
  /\ subject = [key \in Keys |-> Null]
  /\ result = Null
  /\ cache = Null
  /\ lastError = Null
  /\ call = Null
  /\ requests = Null
  /\ overtaken = Null
  /\ clock = 0
  /\ API_KEY = Null
  /\ cacheManager =
       [cache  |-> << >>,
        config |-> [defaultTTL |-> ConfiguredTTL,
                    maxSize    |-> ConfiguredMaxSize],
        stats  |-> NoStats]

\* what the client notes of a set
Noted(data, ttl) ==
  [data |-> data, timestamp |-> clock, ttl |-> EntryTTL(cacheManager, ttl)]

ClientSet ==
  /\ \E passed \in SetArguments :
       /\ cacheManager' =
            set(cacheManager, passed.key, passed.data, passed.ttl, clock)
       /\ subject' =
            [subject EXCEPT ![passed.key] = Noted(passed.data, passed.ttl)]
       /\ result' = Undefined
  /\ UNCHANGED << appVars, now, cache, lastError, call,
                  requests, overtaken, clock, API_KEY >>

ClientPreload ==
  /\ \E passed \in PreloadArguments :
       /\ cacheManager' =
            preload(cacheManager, passed.key, passed.data, passed.ttl, clock)
       /\ subject' =
            [subject EXCEPT ![passed.key] = Noted(passed.data, passed.ttl)]
       /\ result' = Undefined
  /\ UNCHANGED << appVars, now, cache, lastError, call,
                  requests, overtaken, clock, API_KEY >>

ClientBatchSet ==
  /\ \E entries \in Batches :
       /\ cacheManager' = batchSet(cacheManager, entries, clock)
       /\ subject' = [key \in Keys |->
            IF \E i \in 1..Len(entries) : entries[i].key = key
            THEN Noted([test |-> "data"], << >>)
            ELSE subject[key]]
       /\ result' = Undefined
  /\ UNCHANGED << appVars, now, cache, lastError, call,
                  requests, overtaken, clock, API_KEY >>

ClientGet ==
  /\ cacheManager.stats.totalRequests < MaxGets
  /\ \E key \in Keys :
       /\ cacheManager' = get(cacheManager, key, clock).manager
       /\ result' = [op |-> "get", key |-> key,
                     value |-> get(cacheManager, key, clock).value]
  /\ UNCHANGED << appVars, now, subject, cache, lastError,
                  call, requests, overtaken, clock, API_KEY >>

ClientBatchGet ==
  /\ \E keys \in KeyBatches :
       /\ cacheManager.stats.totalRequests + Len(keys) <= MaxGets
       /\ cacheManager' = batchGet(cacheManager, keys, clock).manager
       /\ result' = [op |-> "batchGet", keys |-> keys,
                     value |-> batchGet(cacheManager, keys, clock).value]
  /\ UNCHANGED << appVars, now, subject, cache, lastError,
                  call, requests, overtaken, clock, API_KEY >>

ClientHas ==
  /\ \E key \in Keys :
       /\ cacheManager' = has(cacheManager, key, clock).manager
       /\ result' = [value |-> has(cacheManager, key, clock).value]
  /\ UNCHANGED << appVars, now, subject, cache, lastError,
                  call, requests, overtaken, clock, API_KEY >>

ClientDelete ==
  /\ \E key \in Keys :
       /\ cacheManager' = delete(cacheManager, key).manager
       /\ subject' = [subject EXCEPT ![key] = Null]
       /\ result' = [value |-> delete(cacheManager, key).value]
  /\ UNCHANGED << appVars, now, cache, lastError, call,
                  requests, overtaken, clock, API_KEY >>

ClientClear ==
  /\ cacheManager' = clear(cacheManager)
  /\ subject' = [key \in Keys |-> Null]
  /\ result' = Undefined
  /\ UNCHANGED << appVars, now, cache, lastError, call,
                  requests, overtaken, clock, API_KEY >>

ClientUpdateConfig ==
  /\ \E newConfig \in NewConfigs :
       cacheManager' = updateConfig(cacheManager, newConfig)
  /\ result' = Undefined
  /\ UNCHANGED << appVars, now, subject, cache, lastError,
                  call, requests, overtaken, clock, API_KEY >>

\* the callback of setInterval
TimerCleanup ==
  /\ cacheManager' = cleanup(cacheManager, clock)
  /\ UNCHANGED << appVars, now, callerVars, cache, lastError, call, requests,
                  overtaken, clock, API_KEY >>

\* Date.now() grows by one unit of the TTLs
TimePasses ==
  /\ clock < MaxTime
  /\ clock' = clock + 1
  /\ UNCHANGED << appVars, now, callerVars, cache, lastError, call, requests,
                  overtaken, API_KEY, cacheManager >>

NextManager ==
  \/ ClientSet \/ ClientPreload \/ ClientBatchSet \/ ClientGet
  \/ ClientBatchGet \/ ClientHas
  \/ ClientDelete \/ ClientClear \/ ClientUpdateConfig \/ TimerCleanup
  \/ TimePasses

SpecManager == InitManager /\ [][NextManager]_vars

(***************************************************************************)
(* Properties of the CacheManager (SpecManager).                           *)
(***************************************************************************)
\* this step is a call of get for the key
Got(key) ==
  /\ cacheManager'.stats.totalRequests =
       cacheManager.stats.totalRequests + 1
  /\ "op" \in DOMAIN result'
  /\ result'.op = "get"
  /\ result'.key = key

\* the client has set the key and not deleted or cleared it since
Noticed(key) == subject[key] # Null

\* the time since the client has last set the key
Age(key) == clock - subject[key].timestamp

\* the entry the client has set is gone although no more than its TTL has
\* elapsed
Evicted(key) ==
  /\ Noticed(key)
  /\ Age(key) <= subject[key].ttl
  /\ ~Stored(cacheManager.cache, key)

\* C22 as stated: get after set of a key, with no set, delete or clear of
\* the key in between, returns the data before the TTL of the entry has
\* elapsed, and returns null once it has elapsed or when the key was never
\* set.
C22_RoundTripBeforeTTL ==
  [][\A key \in Keys :
       Got(key) =>
         /\ (Noticed(key) /\ Age(key) < subject[key].ttl) =>
              result'.value = subject[key].data
         /\ (~Noticed(key) \/ Age(key) >= subject[key].ttl) =>
              result'.value = Null]_vars

\* C22, amended: get after set of a key, with no set, delete or clear of
\* the key in between, returns the data while no more than the TTL of the
\* entry has elapsed (an entry as old as its TTL is still returned), unless
\* a set on a full cache has evicted the entry, and then it returns null;
\* it returns null when more than the TTL has elapsed or the key was never
\* set; and an entry that is not older than its TTL goes only in a step
\* that sets another key.
C22_RoundTripUnlessEvicted ==
  /\ [][\A key \in Keys :
          Got(key) =>
            /\ (Noticed(key) /\ Age(key) <= subject[key].ttl
                  /\ ~Evicted(key)) =>
                 result'.value = subject[key].data
            /\ (~Noticed(key) \/ Age(key) > subject[key].ttl
                  \/ Evicted(key)) =>
                 result'.value = Null]_vars
  /\ [][\A key \in Keys :
          (~Evicted(key) /\ Evicted(key)') =>
            \E i \in 1..Len(cacheManager'.cache) :
              /\ cacheManager'.cache[i].timestamp = clock
              /\ cacheManager'.cache[i].key # key]_vars

\* get has returned the other data set under "a" at time 0 with the default
\* TTL, and as much time as this TTL has passed
C22_Witness ==
  /\ result = [op |-> "get", key |-> "a", value |-> [test |-> "other"]]
  /\ subject["a"] =
       [data |-> [test |-> "other"], timestamp |-> 0, ttl |-> ConfiguredTTL]
  /\ clock = ConfiguredTTL
  /\ cacheManager.stats.hits = 1

\* the i-th entry is one of those with the oldest timestamp
IsOldest(entries, i) ==
  \A j \in 1..Len(entries) : entries[j].timestamp >= entries[i].timestamp

\* updateConfig has not been called: it only ever raises maxSize
ConfigurationUnchanged ==
  cacheManager.config =
    [defaultTTL |-> ConfiguredTTL, maxSize |-> ConfiguredMaxSize]

\* C28: after any sequence of set, batchSet, preload, get, has and delete
\* on a manager whose configuration is not changed, the cache never holds
\* more than maxSize entries, and a step that stores a new key in a full
\* cache removes an entry with the oldest timestamp, whatever the
\* timestamps of the stored entries are.
C28_SizeNeverExceedsMaxSize ==
  /\ [](ConfigurationUnchanged =>
          Len(cacheManager.cache) <= cacheManager.config.maxSize)
  /\ [][(/\ ConfigurationUnchanged
         /\ Len(cacheManager.cache) >= cacheManager.config.maxSize
         /\ \E key \in Keys :
              /\ ~Stored(cacheManager.cache, key)
              /\ Stored(cacheManager'.cache, key)) =>
          \E i \in 1..Len(cacheManager.cache) :
            /\ IsOldest(cacheManager.cache, i)
            /\ ~Stored(cacheManager'.cache, cacheManager.cache[i].key)]_vars

\* three entries in a cache of maxSize 2, all stored at the same instant
C28_Witness ==
  /\ ConfigurationUnchanged
  /\ Len(cacheManager.cache) = ConfiguredMaxSize + 1
  /\ \A i \in 1..Len(cacheManager.cache) :
       cacheManager.cache[i].timestamp = clock

(***************************************************************************)
(* Properties of the mock data (SpecPure).                                 *)
(***************************************************************************)
\* C23: what generateMockVitals produces, for every place and every jitter
\* drawn, passes validateCityVitals: isValid is true and there is no error.
C23_MockVitalsAreValid ==
  Returned("validateCityVitals") =>
    /\ result.isValid
    /\ result.errors = << >>

\* the vitals of Tokyo with the greatest jitter have passed: a heart rate
\* of 103 and the placeholder score of 0
C23_Witness ==
  /\ Returned("validateCityVitals")
  /\ subject.argument.heartRate.value = FromInt(103)
  /\ subject.argument.overallHealth.score = 0
  /\ result.isValid

(***************************************************************************)
(* Properties of the queries of App over several selections (Spec).        *)
(***************************************************************************)
\* this step ends the query of the selected location with vitals for it
CompletesWithVitals ==
  /\ isLoading
  /\ ~isLoading'
  /\ selectedLocation' = selectedLocation
  /\ error' = Null
  /\ vitals' # Null

\* C24: a click received while a query is loading starts no second query
\* and selects nothing, and whenever no query is left the vitals displayed
\* are those computed for the most recently selected location: they are set
\* by the step that ends its query, and stay only as long as the selection.
C24_NewestQueryWins ==
  /\ [][isLoading =>
          /\ selectedLocation' = selectedLocation
          /\ pc' \in {"awaitFetches", "awaitMockDelay"} => pc' = pc]_vars
  /\ [][(~isLoading' /\ vitals' # Null) =>
          \/ CompletesWithVitals
          \/ /\ ~isLoading
             /\ vitals' = vitals
             /\ selectedLocation' = selectedLocation]_vars

\* in mock-data mode: the query of Paris has completed, then a click at
\* longitude 190 has been refused; the vitals displayed are those of Paris
C24_Witness ==
  /\ useMockData
  /\ pc = "idle"
  /\ ~isLoading
  /\ selectedLocation # Null
  /\ selectedLocation.lon = FromInt(190)
  /\ \E random \in MockDraws :
       vitals = generateMockVitals(
         [lat |-> FDec(4886, 100), lon |-> FDec(235, 100), timestamp |-> 0],
         random)

\* C25: whenever no query is loading and vitals is not null, the vitals
\* were computed for the selected location: a step that selects another
\* location either starts a query or leaves no vitals, and a query that
\* ends with vitals displayed has ended without error.
C25_VitalsOfSelectedLocation ==
  [][/\ (selectedLocation' # selectedLocation /\ ~isLoading') => vitals' = Null
     /\ (isLoading /\ ~isLoading' /\ vitals' # Null) => error' = Null]_vars

\* in real-data mode: vitals computed from the responses for Paris are
\* displayed with the selected location at longitude 190 and its error
C25_Witness ==
  /\ ~useMockData
  /\ ~isLoading
  /\ selectedLocation # Null
  /\ ~validateLocation(selectedLocation).isValid
  /\ error = [message |->
       "Invalid location data: Longitude must be between -180 and 180 degrees"]
  /\ vitals # Null
  /\ vitals.overallHealth.score > 0

\* C26: every CityVitals stored for display, in real-data mode and in
\* mock-data mode, has its overallHealth populated by the Diagnostic Engine:
\* the score is the overallScore of the engine for the record, the
\* diagnosis is not empty and there are 1 to 5 recommendations.
C26_OverallHealthPopulated ==
  vitals # Null =>
    /\ vitals.overallHealth.score = generateDiagnosis(vitals).overallScore
    /\ vitals.overallHealth.diagnosis # ""
    /\ Len(vitals.overallHealth.recommendations) \in 1..5

\* a mock-data query has completed and the placeholder is displayed
C26_Witness ==
  /\ useMockData
  /\ pc = "idle"
  /\ ~isLoading
  /\ error = Null
  /\ vitals # Null
  /\ vitals.overallHealth = PlaceholderHealth
  /\ generateDiagnosis(vitals).overallScore > 0

\* the status named by HEALTH_THRESHOLDS for a score
BandOf(score) ==
  IF score >= HEALTH_THRESHOLDS.excellent THEN "excellent"
  ELSE IF score >= HEALTH_THRESHOLDS.good THEN "good"
  ELSE IF score >= HEALTH_THRESHOLDS.fair THEN "fair"
  ELSE IF score >= HEALTH_THRESHOLDS.poor THEN "poor"
  ELSE "critical"

\* the vitals displayed were stored by processCityVitals
Processed ==
  /\ vitals # Null
  /\ vitals.overallHealth # PlaceholderHealth

\* C27: the overallHealth.status stored by processCityVitals is the band of
\* overallHealth.score under HEALTH_THRESHOLDS: excellent from 90, good for
\* 75..89, fair for 60..74, poor for 40..59, critical below 40.
C27_StatusAgreesWithBand ==
  Processed =>
    vitals.overallHealth.status = BandOf(vitals.overallHealth.score)

\* vitals stored by processCityVitals with a score below 90, the diagnosis
\* text of that score, and a status one band above it
C27_Witness ==
  /\ Processed
  /\ ~isLoading
  /\ vitals.overallHealth.score < HEALTH_THRESHOLDS.excellent
  /\ vitals.overallHealth.diagnosis =
       generateDiagnosisText(vitals.overallHealth.score, vitals)
  /\ vitals.overallHealth.status # BandOf(vitals.overallHealth.score)

(***************************************************************************)
(* Health of a service over several calls (SpecService).                   *)
(***************************************************************************)
\* the services of the claim, as far as this instance is one of them
HealthServices == DOMAIN call \cap {"airQuality", "earthquake"}

\* the promise that this step has settled with the status, if it has: that
\* of the latest call or that of an earlier one
SettledAs(service, status) ==
  ( IF /\ call[service].status = "pending"
       /\ call'[service].status = status
       /\ overtaken'[service] = overtaken[service]
    THEN { call'[service] } ELSE { } )
    \cup
  ( IF /\ Len(overtaken'[service]) < Len(overtaken[service])
       /\ result'.promise.status = status
    THEN { result'.promise } ELSE { } )

\* this step is the catch block of a call: its request has failed
RequestFails(service) == SettledAs(service, "rejected") # { }

\* this step is the success path of a call after its request
RequestSucceeds(service) == SettledAs(service, "fulfilled") # { }

\* C29 as stated: isHealthy() is true and getLastError() is null exactly
\* when the most recent call of fetchData returned data, cache hits
\* included, isHealthy() is false exactly when the most recent call threw,
\* and a failed request leaves the cache as it was.
C29_HealthFollowsLastCall ==
  /\ [](\A service \in HealthServices :
          /\ call[service].status = "fulfilled" =>
               (isHealthy(service) /\ getLastError(service) = Null)
          /\ call[service].status = "rejected" => ~isHealthy(service))
  /\ [][\A service \in HealthServices :
          RequestFails(service) => cache' = cache]_vars

\* C29, amended: isHealthy() is true and getLastError() is null exactly
\* when the most recent request of fetchData succeeded or none has failed
\* yet, and isHealthy() is false, getLastError() being the message thrown,
\* exactly when the most recent request failed; a call answered from the
\* cache, like the start of a call and the passing of time, changes
\* neither; a failed request leaves the cache as it was.
C29_HealthFollowsLastRequest ==
  /\ [](\A service \in HealthServices :
          isHealthy(service) <=> getLastError(service) = Null)
  /\ [][\A service \in HealthServices :
          /\ RequestSucceeds(service) =>
               /\ isHealthy(service)'
               /\ getLastError(service)' = Null
          /\ RequestFails(service) =>
               /\ cache' = cache
               /\ ~isHealthy(service)'
               /\ \A promise \in SettledAs(service, "rejected") :
                    promise.reason =
                      ErrorPrefix[service] \o getLastError(service)'.message
          /\ ~(RequestFails(service) \/ RequestSucceeds(service)) =>
               /\ getLastError(service)' = getLastError(service)
               /\ isHealthy(service)' = isHealthy(service)]_vars

\* a response is stored for one place, the request for another place has
\* failed, and a call for the first place has then returned the stored
\* response: the last call returned data and the last error stands
C29_Witness ==
  \E service \in HealthServices :
    /\ call[service].status = "fulfilled"
    /\ requests[service] = 0
    /\ ~isHealthy(service)
    /\ getLastError(service) # Null
    /\ Cardinality(DOMAIN cache[service]) = 1

(***************************************************************************)
(* Completion of the queries of App (SpecLive).                            *)
(***************************************************************************)
\* what setVitals can have stored for the query of the selected location
VitalsOfQuery ==
  IF pc = "awaitMockDelay"
  THEN { generateMockVitals(selectedLocation, random) : random \in MockDraws }
  ELSE { processedVitals }

\* what processCityVitals can have made for the query of the selected
\* location
ProcessedOfQuery ==
  { processCityVitals(selectedLocation, airQualityData, earthquakeData,
                      weatherData, random) : random \in RandomDraws }

\* C30: every query completes: once isLoading is true it becomes false
\* again, so that the map accepts clicks again; the step that ends the wait
\* of a query stores vitals computed for its location or sets error, and a
\* call of handleLocationSelect that does not wait has set error.
C30_EveryQueryCompletes ==
  /\ isLoading ~> ~isLoading
  /\ [][(isLoading /\ ~isLoading') =>
          \/ error' # Null
          \/ vitals' \in VitalsOfQuery]_vars
  /\ [][(pc = "awaitFetches" /\ pc' # pc) =>
          processedVitals' \in ProcessedOfQuery]_vars
  /\ [][(MapClick /\ ~isLoading') => error' # Null]_vars

\* a real-data query whose air-quality and weather fetches were rejected
\* has completed: isLoading is false again and vitals are stored
C30_Witness ==
  /\ ~useMockData
  /\ pc = "idle"
  /\ ~isLoading
  /\ selectedLocation # Null
  /\ airQualityData # Null
  /\ airQualityData.status = "rejected"
  /\ earthquakeData.status = "fulfilled"
  /\ weatherData.status = "rejected"
  /\ error = Null
  /\ vitals # Null

====
